---- MODULE Spec2Model ----
(***************************************************************************)
(* Transaction lifecycle of the Radius Python SDK: the orchestrated sends  *)
(* of Client and Account/Contract, the confirmation poll loop, contract    *)
(* deployment and read-only calls.  Every task is one outward-facing call; *)
(* the node, the signer service and the clock are the environment.         *)
(***************************************************************************)
EXTENDS Integers, Sequences, FiniteSets, TLC

VARIABLES task, clock, chain

vars == <<task, clock, chain>>

(* ------------------------------ bounds -------------------------------- *)

\* longest time one receipt query may take, in milliseconds
QueryLatencyMs == 700
\* largest timeout_secs a caller passes to _wait_for_transaction
MaxTimeoutSecs == 2

\* the outward-facing calls of one behaviour
Tasks == {1}

(* -------------------------- program constants ------------------------- *)

\* client.py: _wait_for_transaction(tx_hash, timeout_secs=60, ...)
DefaultTimeoutSecs == 60
\* client.py: _wait_for_transaction(..., poll_interval_ms=500)
DefaultPollIntervalMs == 500
\* client.py: tx.gas_price = 1000000000 (fallback of Client.send)
FallbackGasPrice == 1000000000
\* src/common/constants.py is not part of the sources at hand; any value
\* above every estimate used here leaves min(MAX_GAS, ...) transparent
MAX_GAS == 2000000000

(* ------------------------------ values -------------------------------- *)

\* Python's None for an optional number
None == -1
\* Python's None for an optional Address
NoAddress == "None"
\* Address(bytes(20))
ZeroAddress == "0x00"
SenderAddress == "0xsender"
RecipientAddress == "0xrecipient"
ContractAddress == "0xcontract"
\* the address a node reports for a newly created contract
CreatedAddress == "0xcreated"
\* the transaction a task deals with is identified by the task
NoHash == <<>>
HashOf(t) == <<"hash", t>>

\* what the node answers
PendingNonces == {5, 6}
GasEstimates == {21000, 21001}
NetworkGasPrices == {0, FallbackGasPrice}
\* what a caller may put into a Transaction
CallerNonces == {None, 9}
CallerGasLimits == {None, 50000}
CallerGasPrices == {None, 2}

ClientKinds == {"Client", "MockClient"}
SignerKinds == {"PrivateKeySigner", "ClefSigner"}
\* what a signer was constructed with as its client: the library Client, a
\* protocol-conforming SignerClient, or (test/helpers.py) a bare chain id
SignerClientKinds == {"Client", "MockClient", "int"}

\* transaction.py: @dataclass Transaction
Transaction(to, data, value, nonce, gas_price, gas_limit) ==
    [to |-> to, data |-> data, value |-> value, nonce |-> nonce,
     gas_price |-> gas_price, gas_limit |-> gas_limit]

NoTx == Transaction(NoAddress, <<>>, 0, None, None, None)

\* the attributes a Transaction instance has; reading any other raises
TransactionFields == {"to", "data", "value", "nonce", "gas_price", "gas_limit"}

\* receipt.py: @dataclass Receipt (the fields the lifecycle reads)
NoReceipt ==
    [present |-> FALSE, status |-> FALSE, contract_address |-> NoAddress, transaction_hash |-> NoHash]

\* the "status" member of a receipt object sent by the node
StatusFields == {"0x1", "0x0", "int1", "int0", "absent", "0x01"}

\* a conversion that reads the status as a number and takes a receipt
\* without status for a success
ReceiptStatusByValue(statusField) ==
    statusField \in {"0x1", "0x01", "int1", "absent"}

\* Receipt.status after from_dict: the default False when the member is
\* absent, status_val == "0x1" for a string, bool(status_val) otherwise
ReceiptStatus(statusField) ==
    CASE statusField = "absent" -> FALSE
      [] statusField \in {"0x1", "0x0", "0x01"} -> (statusField = "0x1")
      [] statusField = "int1" -> TRUE
      [] OTHER -> FALSE

\* Receipt.from_dict on the node's object
ReceiptFromDict(json) ==
    [present |-> TRUE,
     status |-> ReceiptStatus(json.status),
     contract_address |-> json.contractAddress,
     transaction_hash |-> json.transactionHash]

NodeReceipts(h) ==
    [status : StatusFields, contractAddress : {NoAddress, CreatedAddress}, transactionHash : {h}]

(* ------------------------- python object model ------------------------ *)

\* the public and private methods class Client defines (client.py)
ClientMethods ==
    {"new", "http_client", "chain_id", "block_number", "gas_price", "balance_at",
     "pending_nonce_at", "code_at", "call", "execute", "estimate_gas", "send",
     "transact", "deploy_contract", "send_raw_transaction",
     "_wait_for_transaction", "_get_transaction_receipt", "_call"}

\* a mock client answers every method a caller in src/ invokes on its client
\* argument (AccountClient, ContractClient, SignerClient and Contract.call)
MockClientMethods ==
    {"get_balance", "get_transaction_count", "send_raw_transaction", "estimate_gas",
     "pending_nonce_at", "chain_id", "call", "transact", "_call"}

\* class Client(SignerClient): the coroutines of the protocol class that
\* Client does not override are inherited with their body `...`
ClientInherited == {"chain_id", "get_transaction_count"}

\* awaiting the method sends no request and yields None
IsStub(kind, name) == kind = "Client" /\ name \in ClientInherited \ ClientMethods

\* getattr(client, name) succeeds
HasMethod(kind, name) ==
    CASE kind = "Client" -> name \in ClientMethods \cup ClientInherited
      [] kind = "MockClient" -> name \in MockClientMethods
      [] OTHER -> FALSE

\* Signer.address is a property on both signers of the library, so the
\* expression signer.address() calls an Address object
AddressIsProperty(signerKind) == signerKind \in {"PrivateKeySigner", "ClefSigner"}

(* JSON-RPC answers seen by Client._call: a result, an error envelope, both *)
(* members, neither member, or a transport failure raised by post           *)
RpcKinds == {"result", "error", "both", "neither", "transport"}

\* a caller that takes an error envelope for an answer
RpcOkLenient(kind) == kind \in {"result", "error"}

\* Client._call returns response["result"]
RpcOk(kind) == kind = "result"

\* the outcomes one operation of a client can have
Outcomes(clientKind) ==
    IF clientKind = "Client" THEN RpcKinds ELSE {"result", "raises"}

\* int(gas * 1.2), exact for every estimate below 2^50
Margin20(gas) == (gas * 6) \div 5

\* int(estimate * 1.1), exact for every estimate below 2^50
Margin10(estimate) == (estimate * 11) \div 10

Min(a, b) == IF a < b THEN a ELSE b

(* ---------------------------- ABI (abstract) -------------------------- *)

\* the SimpleStorage interface of test/helpers.py, and one with a constructor
SimpleStorageABI ==
    [methods |-> {"get", "set"}, events |-> {}, has_constructor |-> FALSE]
TokenABI ==
    [methods |-> {"get", "set"}, events |-> {"Changed"}, has_constructor |-> TRUE]
ABIs == {SimpleStorageABI, TokenABI}
MethodNames == {"get", "set", "missing", "Changed"}
Bytecodes == {<<>>, <<"bytecode">>}
ArgLists == {<<>>, <<"42">>, <<"42", "43">>}

\* the chain ids the signer's client may report
ChainIds == {1223953, 1}

\* the number of inputs each function, and the constructor, declares
Arity(method) == IF method \in {"set", "constructor"} THEN 1 ELSE 0

\* ABI.encode_function_data: the selector followed by the encoded arguments
EncodeFunctionData(method, args) == <<method>> \o args

\* the constructor arguments as web3 encodes them after the bytecode
EncodeConstructorArguments(args) == [i \in 1..Len(args) |-> args[i]]

(* ------------------------------- state -------------------------------- *)

NoResult ==
    [kind |-> "pending", exc |-> "", msg |-> "", cause |-> "",
     receipt |-> NoReceipt, hash |-> NoHash, contract |-> NoAddress, values |-> <<>>]

Returned(receipt, hash, contract, values) ==
    [kind |-> "returned", exc |-> "", msg |-> "", cause |-> "",
     receipt |-> receipt, hash |-> hash, contract |-> contract, values |-> values]

\* raise exc(msg): no exception of the library carries anything but its text
Raised(exc, msg, cause) ==
    [kind |-> "raised", exc |-> exc, msg |-> msg, cause |-> cause,
     receipt |-> NoReceipt, hash |-> NoHash, contract |-> NoAddress, values |-> <<>>]

NewTask ==
    [pc |-> "idle", op |-> "", client |-> "Client", signer |-> "PrivateKeySigner",
     signerClient |-> "Client", wait_for_receipt |-> FALSE,
     abi |-> SimpleStorageABI, method |-> "", args |-> <<>>, bytecode |-> <<>>,
     block |-> "", calls |-> <<>>,
     tx0 |-> NoTx, tx |-> NoTx, handed |-> <<>>, raw |-> <<>>, hash |-> NoHash,
     nodeNonce |-> None, nodeEstimate |-> None,
     start |-> 0, timeout |-> 0, interval |-> 0, wake |-> 0, queries |-> 0, nones |-> 0,
     sleeps |-> 0, obtained |-> NoReceipt, chainIds |-> <<>>, probe |-> "",
     requested |-> 0,
     post |-> "", response |-> [result |-> <<>>, error |-> <<>>], error_text |-> <<>>,
     opts |-> <<>>, http |-> "", unreachable |-> "", answers |-> <<>>, stubbed |-> 0, read |-> NoResult,
     raw_abi |-> <<>>, tables |-> [raw |-> <<>>, methods |-> <<>>, events |-> <<>>], uses |-> 0,
     last |-> [op |-> "", name |-> "", data |-> <<>>,
               out |-> [raised |-> FALSE, exc |-> "",
                        found |-> [type |-> "", name |-> "", inputs |-> 0, outputs |-> 0],
                        values |-> <<>>]],
     signature |-> [r |-> 0, s |-> 0, v |-> 0],
     accessor |-> [name |-> "", raised |-> FALSE, text |-> ""],
     addr |-> [input |-> <<>>, built |-> [raised |-> FALSE, exc |-> "", bytes |-> <<>>],
               hex |-> <<>>, back |-> [raised |-> FALSE, exc |-> "", bytes |-> <<>>]],
     codec |-> [fn |-> [name |-> "", selector |-> <<>>, inputs |-> <<>>, outputs |-> <<>>],
                args |-> <<>>, data |-> <<>>,
                out |-> [raised |-> FALSE, exc |-> "", values |-> <<>>]],
     earlier |-> [sent |-> FALSE, tx |-> NoTx, nodeNonce |-> None, nodeEstimate |-> None],
     status_field |-> "",
     trace |-> <<>>, result |-> NoResult]

NoChain == [submitted |-> <<>>, mined |-> FALSE, receipt |-> NoReceipt]

Init ==
    /\ task = [t \in Tasks |-> NewTask]
    /\ clock = 0
    /\ chain = [t \in Tasks |-> NoChain]

Set(t, r) == task' = [task EXCEPT ![t] = r]

Fail(r, exc, msg, cause) == [r EXCEPT !.pc = "done", !.result = Raised(exc, msg, cause)]

Log(r, event) == [r EXCEPT !.trace = Append(@, event)]

\* a request the call awaited and how it was answered
Ask(r, event, kind) ==
    [Log(r, event) EXCEPT !.answers = Append(@, [event |-> event, kind |-> kind])]

(* ------------------- Client.send / execute / deploy ------------------- *)

\* a signer whose address attribute is a plain method (duck typing)
ClientSigners == SignerKinds \cup {"DuckSigner"}

\* Client.send(signer, recipient, value): tx = Transaction(to, value, data)
StartClientSend(t) ==
    /\ task[t].pc = "idle"
    /\ \E sg \in ClientSigners :
         LET tx == Transaction(RecipientAddress, <<>>, 100, None, None, None)
         IN Set(t, [task[t] EXCEPT !.pc = "client_nonce", !.op = "Client.send",
                                   !.signer = sg, !.tx0 = tx, !.tx = tx])
    /\ UNCHANGED <<clock, chain>>

\* Client.execute(contract, signer, method, *args)
StartClientExecute(t) ==
    /\ task[t].pc = "idle"
    /\ \E sg \in ClientSigners, m \in MethodNames, a \in ArgLists :
         Set(t, [task[t] EXCEPT !.pc = "client_execute", !.op = "Client.execute",
                                !.signer = sg, !.method = m, !.args = a])
    /\ UNCHANGED <<clock, chain>>


\* Client.execute up to its first request: the call data is encoded, then
\* contract.address() calls the Address the property returns
ClientExecute(t) ==
    /\ task[t].pc = "client_execute"
    /\ LET r == task[t]
       IN IF r.method \notin r.abi.methods
          THEN Set(t, Fail(r, "ValueError", "Function not found in ABI", ""))
          ELSE IF Len(r.args) # Arity(r.method)
          THEN Set(t, Fail(r, "Web3Error", "arguments do not match the function", ""))
          ELSE Set(t, Fail(r, "TypeError", "'Address' object is not callable", ""))
    /\ UNCHANGED <<clock, chain>>

\* Client.deploy_contract(signer, bytecode, abi, *args)
StartClientDeploy(t) ==
    /\ task[t].pc = "idle"
    /\ \E sg \in ClientSigners, b \in Bytecodes, abi \in ABIs, a \in ArgLists :
         Set(t, [task[t] EXCEPT !.pc = "client_deploy", !.op = "Client.deploy_contract",
                                !.signer = sg, !.bytecode = b, !.abi = abi, !.args = a])
    /\ UNCHANGED <<clock, chain>>

\* Client.deploy_contract up to the creation of the transaction; class ABI
\* has no attribute named constructor, which is read when args are given
ClientDeployContract(t) ==
    /\ task[t].pc = "client_deploy"
    /\ LET r == task[t]
           tx == Transaction(NoAddress, r.bytecode, 0, None, None, None)
       IN IF r.bytecode = <<>>
          THEN Set(t, Fail(r, "ValueError", "Contract bytecode is required", ""))
          ELSE IF r.args # <<>>
          THEN Set(t, Fail(r, "AttributeError", "'ABI' object has no attribute 'constructor'", ""))
          ELSE Set(t, [r EXCEPT !.pc = "client_nonce", !.tx0 = tx, !.tx = tx])
    /\ UNCHANGED <<clock, chain>>

\* if tx.nonce is None: tx.nonce = await self.pending_nonce_at(signer.address())
ClientNonce(t) ==
    /\ task[t].pc = "client_nonce"
    /\ LET r == task[t]
       IN IF AddressIsProperty(r.signer)
          THEN Set(t, Fail(r, "TypeError", "'Address' object is not callable", ""))
          ELSE \E k \in RpcKinds :
                 LET q == Ask(r, "pending_nonce_at", k)
                 IN IF RpcOk(k)
                    THEN \E n \in PendingNonces :
                           Set(t, [q EXCEPT !.pc = "client_gas", !.tx.nonce = n,
                                            !.nodeNonce = n])
                    ELSE Set(t, Fail(q, "RuntimeError", "Failed to get nonce", k))
    /\ UNCHANGED <<clock, chain>>

\* if tx.gas is None: a Transaction has gas_limit but no attribute gas, so
\* the read raises and no later step of send/execute/deploy_contract runs
ClientGas(t) ==
    /\ task[t].pc = "client_gas"
    /\ "gas" \notin TransactionFields
    /\ Set(t, Fail(task[t], "AttributeError", "'Transaction' object has no attribute 'gas'", ""))
    /\ UNCHANGED <<clock, chain>>

(* ------------------ Client.transact and the poll loop ----------------- *)

PollIntervals == {250, 500}

\* the signed bytes: an encoding of the signed fields and the chain id
Raw(tx, chain_id) == <<[tx |-> tx, chain_id |-> chain_id]>>

\* the bytes of a transaction some signer signed for this task beforehand
RawOf(t) == Raw(Transaction(RecipientAddress, <<>>, 100, 5, 2, 50000), 1223953)

\* Client.transact(signer, tx) with a SignedTransaction made beforehand
StartTransact(t) ==
    /\ task[t].pc = "idle"
    /\ Set(t, [task[t] EXCEPT !.pc = "transact", !.op = "Client.transact",
                              !.raw = RawOf(t)])
    /\ UNCHANGED <<clock, chain>>

\* Client._wait_for_transaction(tx_hash, timeout_secs, poll_interval_ms) for
\* a transaction broadcast earlier; start_time = time.time()
StartWait(t) ==
    /\ task[t].pc = "idle"
    /\ \E ts \in 0..MaxTimeoutSecs, pi \in PollIntervals :
         Set(t, [task[t] EXCEPT !.pc = "poll", !.op = "Client._wait_for_transaction",
                                !.hash = HashOf(t), !.start = clock,
                                !.timeout = ts, !.interval = pi])
    /\ chain' = [chain EXCEPT ![t].submitted = RawOf(t)]
    /\ UNCHANGED clock

\* tx_hash = await self.send_raw_transaction(tx.raw_tx), then the wait
\* starts with its default timeout and interval
Transact(t) ==
    /\ task[t].pc = "transact"
    /\ \E k \in RpcKinds :
         LET q == Ask(task[t], "send_raw_transaction", k)
         IN IF RpcOk(k)
            THEN /\ Set(t, [q EXCEPT !.pc = "poll", !.hash = HashOf(t), !.start = clock,
                                     !.timeout = DefaultTimeoutSecs,
                                     !.interval = DefaultPollIntervalMs])
                 /\ chain' = [chain EXCEPT ![t].submitted = q.raw]
            ELSE /\ Set(t, Fail(q, "RuntimeError", "Failed to send raw transaction", k))
                 /\ UNCHANGED chain
    /\ UNCHANGED clock

\* a timeout that compares milliseconds with seconds
TimedOutUnitSlip(now, start, timeout_secs) == now - start > timeout_secs

\* time.time() - start_time > timeout_secs, on a millisecond clock
TimedOut(now, start, timeout_secs) == now - start > timeout_secs * 1000

\* await asyncio.sleep(poll_interval) is reached at `now`: the coroutine is
\* suspended on a timer of the event loop that is due one interval later
Asleep(r, now) == [r EXCEPT !.pc = "sleep", !.wake = now + r.interval]

\* a loop that returns whatever receipt it gets
ExamineIgnoringStatus(r, receipt, now) ==
    IF receipt.present
    THEN [r EXCEPT !.pc = "done", !.result = Returned(receipt, NoHash, NoAddress, <<>>)]
    ELSE IF TimedOut(now, r.start, r.timeout)
         THEN Fail(r, "RuntimeError", "Timeout waiting for receipt", "")
         ELSE Asleep(r, now)

\* a loop that queries again at once
ExamineBusySpin(r, receipt, now) ==
    IF receipt.present
    THEN IF receipt.status = FALSE
         THEN Fail(r, "RuntimeError", "Transaction failed", "")
         ELSE [r EXCEPT !.pc = "done", !.result = Returned(receipt, NoHash, NoAddress, <<>>)]
    ELSE IF TimedOut(now, r.start, r.timeout)
         THEN Fail(r, "RuntimeError", "Timeout waiting for receipt", "")
         ELSE [r EXCEPT !.pc = "poll"]

\* a loop that reports the timeout and goes on polling
ExamineResumesAfterTimeout(r, receipt, now) ==
    IF receipt.present
    THEN IF receipt.status = FALSE
         THEN Fail(r, "RuntimeError", "Transaction failed", "")
         ELSE [r EXCEPT !.pc = "done", !.result = Returned(receipt, NoHash, NoAddress, <<>>)]
    ELSE IF TimedOut(now, r.start, r.timeout)
         THEN [Asleep(r, now) EXCEPT
                 !.result = Raised("RuntimeError", "Timeout waiting for receipt", "")]
         ELSE Asleep(r, now)

\* a loop that checks the timeout before it looks at the receipt
ExamineTimeoutFirst(r, receipt, now) ==
    IF TimedOut(now, r.start, r.timeout)
    THEN Fail(r, "RuntimeError", "Timeout waiting for receipt", "")
    ELSE IF receipt.present
    THEN IF receipt.status = FALSE
         THEN Fail(r, "RuntimeError", "Transaction failed", "")
         ELSE [r EXCEPT !.pc = "done", !.result = Returned(receipt, NoHash, NoAddress, <<>>)]
    ELSE Asleep(r, now)

\* what the loop does with the receipt a query returned
Examine(r, receipt, now) ==
    IF receipt.present
    THEN IF receipt.status = FALSE
         THEN Fail(r, "RuntimeError", "Transaction failed", "")
         ELSE [r EXCEPT !.pc = "done", !.result = Returned(receipt, NoHash, NoAddress, <<>>)]
    ELSE IF TimedOut(now, r.start, r.timeout)
         THEN Fail(r, "RuntimeError", "Timeout waiting for receipt", "")
         ELSE Asleep(r, now)

\* a loop that takes a failed query for "no receipt yet"
PollSwallowingFailures(t) ==
    /\ task[t].pc = "poll"
    /\ \E d \in {0, QueryLatencyMs}, k \in RpcKinds :
         LET now == clock + d
             q == [Ask(task[t], "get_transaction_receipt", k) EXCEPT !.queries = @ + 1]
         IN /\ clock' = now
            /\ IF ~RpcOk(k)
               THEN /\ Set(t, Examine([q EXCEPT !.nones = @ + 1], NoReceipt, now))
                    /\ UNCHANGED chain
               ELSE \/ /\ ~chain[t].mined
                       /\ Set(t, Examine([q EXCEPT !.nones = @ + 1], NoReceipt, now))
                       /\ UNCHANGED chain
                    \/ \E j \in NodeReceipts(q.hash) :
                         /\ chain[t].mined => chain[t].receipt = ReceiptFromDict(j)
                         /\ Set(t, Examine([q EXCEPT !.obtained = ReceiptFromDict(j),
                                                     !.status_field = j.status],
                                            ReceiptFromDict(j), now))
                         /\ chain' = [chain EXCEPT ![t].mined = TRUE,
                                                   ![t].receipt = ReceiptFromDict(j)]

\* one iteration of the loop up to its sleep: the receipt query, the
\* examination of the receipt and the timeout check.  The node mines the
\* transaction at any moment; the moment shows only in an answer.
Poll(t) ==
    /\ task[t].pc = "poll"
    /\ \E d \in {0, QueryLatencyMs}, k \in RpcKinds :
         LET now == clock + d
             q == [Ask(task[t], "get_transaction_receipt", k) EXCEPT !.queries = @ + 1]
         IN /\ clock' = now
            /\ IF ~RpcOk(k)
               THEN /\ Set(t, Fail(q, "RuntimeError", "Failed to get receipt", k))
                    /\ UNCHANGED chain
               ELSE \/ /\ ~chain[t].mined
                       /\ Set(t, Examine([q EXCEPT !.nones = @ + 1], NoReceipt, now))
                       /\ UNCHANGED chain
                    \/ \E j \in NodeReceipts(q.hash) :
                         /\ chain[t].mined => chain[t].receipt = ReceiptFromDict(j)
                         /\ Set(t, Examine([q EXCEPT !.obtained = ReceiptFromDict(j),
                                                     !.status_field = j.status],
                                            ReceiptFromDict(j), now))
                         /\ chain' = [chain EXCEPT ![t].mined = TRUE,
                                                   ![t].receipt = ReceiptFromDict(j)]

\* the timers of the event loop run side by side and fire in the order in
\* which they are due
FiresFirst(t) ==
    \A u \in DOMAIN task : task[u].pc = "sleep" => task[u].wake >= task[t].wake

\* await asyncio.sleep(poll_interval) returns: the time is the moment the
\* timer was due, or later when the thread was held beyond it
Sleep(t) ==
    /\ task[t].pc = "sleep"
    /\ FiresFirst(t)
    /\ Set(t, [Log(task[t], "sleep") EXCEPT !.pc = "poll", !.sleeps = @ + 1])
    /\ clock' = IF clock > task[t].wake THEN clock ELSE task[t].wake
    /\ UNCHANGED chain

\* the caller cancels the wait: CancelledError is raised at the await the
\* coroutine is suspended in, asyncio.sleep; nothing catches it
Cancel(t) ==
    /\ task[t].pc = "sleep"
    /\ task[t].result.kind = "pending"
    /\ Set(t, Fail(task[t], "CancelledError", "", ""))
    /\ UNCHANGED <<clock, chain>>

\* the node includes a broadcast transaction whose sender no longer waits
Mine(t) ==
    /\ task[t].pc = "done"
    /\ chain[t].submitted # <<>>
    /\ ~chain[t].mined
    /\ \E j \in NodeReceipts(HashOf(t)) :
         chain' = [chain EXCEPT ![t].mined = TRUE, ![t].receipt = ReceiptFromDict(j)]
    /\ UNCHANGED <<task, clock>>

(* ----------------------------- signers -------------------------------- *)

\* the answers of the Clef service to account_signTransaction
ClefKinds == {"result", "error", "empty", "transport"}

\* a signer that lets an absent gas price through (defaulting it)
MissingFieldPriceDefaulted(tx) ==
    IF tx.gas_limit = None THEN "gas limit" ELSE ""

\* the two completeness checks of sign_transaction, in their order: the
\* field for whose absence the signer refuses, "" when it signs
MissingField(tx) ==
    IF tx.gas_price = None THEN "gas price"
    ELSE IF tx.gas_limit = None THEN "gas limit"
    ELSE ""

\* the nonce a request without "nonce" is signed with is the signing
\* service's choice: the zero value of the field, or one it looks up
ClefAssumedNonces == {0} \cup PendingNonces

\* eth_tx["chainId"] = chain_id, with chain_id = await self._client.chain_id():
\* what the client reports now, whatever this signer signed with before
SigningChainId(reported, used) == reported

\* eth_tx["chainId"] = chain_id, then the signature; the task goes to `after`
\* with the signed bytes.  ClefSigner._post is a synchronous requests call.
SignWithChainId(t, q, cid, after) ==
    IF q.signer = "ClefSigner"
    THEN \E k \in ClefKinds :
           LET c == Ask(q, "account_signTransaction", k)
               \* to_eth_transaction leaves out a nonce that is None,
               \* and the service signs with the nonce it assumes
               signed == IF c.tx.nonce = None
                         THEN {[c.tx EXCEPT !.nonce = n] : n \in ClefAssumedNonces}
                         ELSE {c.tx}
           IN CASE k = "transport" ->
                     Set(t, Fail(c, "RuntimeError", "Failed to communicate with Clef", k))
                [] k = "error" ->
                     Set(t, Fail(c, "RuntimeError", "Clef signing failed", k))
                [] k = "empty" ->
                     Set(t, Fail(c, "RuntimeError", "Clef returned empty result", k))
                [] OTHER ->
                     \E s \in signed :
                       Set(t, [c EXCEPT !.pc = after, !.raw = Raw(s, cid),
                                        !.chainIds = Append(@, cid)])
    \* eth_account refuses a dict without "nonce"
    ELSE IF q.tx.nonce = None
    THEN Set(t, Fail(q, "TypeError",
                     "Transaction must include these fields: nonce", ""))
    ELSE Set(t, [q EXCEPT !.pc = after, !.raw = Raw(q.tx, cid),
                          !.chainIds = Append(@, cid)])

\* sign_transaction from its completeness checks on: the two checks, then
\* chain_id = await self._client.chain_id(), then the signature
SignFromChecks(t, q, after) ==
    IF MissingField(q.tx) = "gas price"
    THEN Set(t, Fail(q, "RuntimeError", "Transaction must have a gas price", ""))
    ELSE IF MissingField(q.tx) = "gas limit"
    THEN Set(t, Fail(q, "RuntimeError", "Transaction must have a gas limit", ""))
    ELSE IF ~HasMethod(q.signerClient, "chain_id")
    THEN Set(t, Fail(q, "AttributeError", "signer client has no attribute 'chain_id'", ""))
    ELSE \E k \in Outcomes(q.signerClient) :
           LET c == Ask(q, "chain_id", k)
           IN IF RpcOk(k)
              THEN \E cid \in ChainIds :
                     SignWithChainId(t, c, SigningChainId(cid, c.chainIds), after)
              ELSE Set(t, Fail(c, "RuntimeError", "Failed to get chain ID", k))

\* PrivateKeySigner.sign_transaction / ClefSigner.sign_transaction on the
\* transaction r.tx, up to its next await.  When the signer has to ask its
\* client for the nonce, the call stores the answer in the caller's object
\* and is then at `fetched`, before its checks; a call that asks for no
\* nonce (the caller gave one, or the method is the inherited stub, which
\* never suspends) runs on to the chain id and the signature.
SignTransaction(t, r0, fetched, after) ==
    LET r == [Log(r0, "sign_transaction") EXCEPT !.handed = Append(@, r0.tx)]
    IN IF r.tx.nonce = None
       THEN IF ~HasMethod(r.signerClient, "get_transaction_count")
            THEN Set(t, Fail(r, "AttributeError",
                             "signer client has no attribute 'get_transaction_count'", ""))
            ELSE IF IsStub(r.signerClient, "get_transaction_count")
            THEN SignFromChecks(t, [r EXCEPT !.stubbed = @ + 1], after)
            ELSE \E k \in Outcomes(r.signerClient) :
                   LET c == Ask(r, "get_transaction_count", k)
                   IN IF RpcOk(k)
                      THEN \E n \in PendingNonces :
                             Set(t, [c EXCEPT !.pc = fetched, !.tx.nonce = n,
                                              !.nodeNonce = n])
                      ELSE Set(t, Fail(c, "RuntimeError", "Failed to get nonce", k))
       ELSE SignFromChecks(t, r, after)

\* signer.sign_transaction(tx) called by the user of the library
StartSign(t) ==
    /\ task[t].pc = "idle"
    /\ \E sg \in SignerKinds, sc \in SignerClientKinds,
          n \in CallerNonces, gl \in CallerGasLimits, gp \in CallerGasPrices :
         LET tx == Transaction(RecipientAddress, <<>>, 100, n, gp, gl)
         IN Set(t, [task[t] EXCEPT !.pc = "sign", !.op = "Signer.sign_transaction",
                                   !.signer = sg, !.signerClient = sc,
                                   !.tx0 = tx, !.tx = tx])
    /\ UNCHANGED <<clock, chain>>

\* the call up to the signer's nonce request, or to the signature
Sign(t) ==
    /\ task[t].pc = "sign"
    /\ SignTransaction(t, task[t], "sign_checks", "signed")
    /\ UNCHANGED <<clock, chain>>

\* the call goes on with the nonce its signer fetched
SignChecks(t) ==
    /\ task[t].pc = "sign_checks"
    /\ SignFromChecks(t, task[t], "signed")
    /\ UNCHANGED <<clock, chain>>

\* return SignedTransaction(tx_hash, raw_tx, tx)
SignReturn(t) ==
    /\ task[t].pc = "signed"
    /\ Set(t, [task[t] EXCEPT !.pc = "done",
                              !.result = Returned(NoReceipt, HashOf(t), NoAddress, <<>>)])
    /\ UNCHANGED <<clock, chain>>

\* what ClefSigner._post can meet: a JSON-RPC result, a JSON-RPC error
\* object, a failed connection or HTTP status, a body that is not JSON
ProbeKinds == {"result", "error", "transport", "badjson"}

\* a constructor that leaves the discovery of a dead service to first use
ProbeNeverFails(kind) == FALSE

\* _post raises RuntimeError for requests.RequestException and for
\* json.JSONDecodeError; any JSON object is returned to the caller
ProbeFailed(kind) == kind \in {"transport", "badjson"}

\* ClefSigner(address, client, clef_url) / new_clef_signer(...)
StartClefInit(t) ==
    /\ task[t].pc = "idle"
    /\ \E sc \in SignerClientKinds :
         Set(t, [task[t] EXCEPT !.pc = "clef_init", !.op = "ClefSigner.__init__",
                                !.signer = "ClefSigner", !.signerClient = sc])
    /\ UNCHANGED <<clock, chain>>

\* ClefSigner.__init__: self._post("account_list", []) inside try/except
ClefInit(t) ==
    /\ task[t].pc = "clef_init"
    /\ \E k \in ProbeKinds :
         LET q == [Log(task[t], "account_list") EXCEPT !.probe = k]
         IN IF ProbeFailed(k)
            THEN Set(t, Fail(q, "RuntimeError", "Unable to connect to Clef", k))
            ELSE Set(t, [q EXCEPT !.pc = "done",
                                  !.result = Returned(NoReceipt, NoHash, NoAddress,
                                                      <<"ClefSigner">>)])
    /\ UNCHANGED <<clock, chain>>

\* how many times a caller signs with one signer instance
MaxSigns == 2

\* the Transaction a SignedTransaction embeds: SignedTransaction(tx=tx) keeps
\* the caller's object itself, so reading it reads the object as it is now
EmbeddedTx(r) == r.tx

\* the fields that went into the signed bytes
SignedFields(r) == r.raw[1].tx

\* the caller reuses its Transaction object after the signature: tx.nonce += 1
CallerMutates(t) ==
    /\ task[t].pc = "done"
    /\ task[t].op = "Signer.sign_transaction"
    /\ task[t].result.kind = "returned"
    /\ task[t].tx = SignedFields(task[t])
    /\ Set(t, [task[t] EXCEPT !.tx.nonce = @ + 1])
    /\ UNCHANGED <<clock, chain>>

\* the caller signs again with the same signer instance
SignAgain(t) ==
    /\ task[t].pc = "done"
    /\ task[t].op = "Signer.sign_transaction"
    /\ task[t].result.kind = "returned"
    /\ Len(task[t].chainIds) < MaxSigns
    /\ Set(t, [task[t] EXCEPT !.pc = "sign", !.result = NoResult])
    /\ UNCHANGED <<clock, chain>>

(* ---------------- Account.send_transaction and Contract -------------- *)

\* account.send_transaction(client, tx, wait_for_receipt)
StartAccountSend(t) ==
    /\ task[t].pc = "idle"
    /\ \E cl \in ClientKinds, sg \in SignerKinds, sc \in SignerClientKinds,
          n \in CallerNonces, gl \in CallerGasLimits, gp \in CallerGasPrices,
          w \in BOOLEAN :
         LET tx == Transaction(RecipientAddress, <<>>, 100, n, gp, gl)
         IN Set(t, [task[t] EXCEPT !.pc = "acct_nonce", !.op = "Account.send_transaction",
                                   !.client = cl, !.signer = sg, !.signerClient = sc,
                                   !.wait_for_receipt = w, !.tx0 = tx, !.tx = tx])
    /\ UNCHANGED <<clock, chain>>

\* contract.execute(client, account, method_name, *args, gas_limit, gas_price)
StartContractExecute(t) ==
    /\ task[t].pc = "idle"
    /\ \E cl \in ClientKinds, sg \in SignerKinds, sc \in SignerClientKinds,
          m \in MethodNames, a \in ArgLists, abi \in ABIs,
          gl \in CallerGasLimits, gp \in CallerGasPrices :
         Set(t, [task[t] EXCEPT !.pc = "contract_execute", !.op = "Contract.execute",
                                !.client = cl, !.signer = sg, !.signerClient = sc,
                                !.method = m, !.args = a, !.abi = abi,
                                !.tx0 = Transaction(NoAddress, <<>>, 0, None, gp, gl)])
    /\ UNCHANGED <<clock, chain>>

\* Contract.execute: the call data, then Transaction(to, data, value,
\* gas_limit, gas_price) goes to account.send_transaction
ContractExecute(t) ==
    /\ task[t].pc = "contract_execute"
    /\ LET r == task[t]
           tx == Transaction(ContractAddress, EncodeFunctionData(r.method, r.args), 0,
                             None, r.tx0.gas_price, r.tx0.gas_limit)
       IN IF r.method \notin r.abi.methods
          THEN Set(t, Fail(r, "ValueError", "Function not found in ABI", ""))
          ELSE IF Len(r.args) # Arity(r.method)
          THEN Set(t, Fail(r, "Web3Error", "arguments do not match the function", ""))
          ELSE Set(t, [r EXCEPT !.pc = "acct_nonce", !.tx0 = tx, !.tx = tx])
    /\ UNCHANGED <<clock, chain>>

\* Contract.deploy(client, account, abi, bytecode, *constructor_args, ...)
StartContractDeploy(t) ==
    /\ task[t].pc = "idle"
    /\ \E cl \in ClientKinds, sg \in SignerKinds, sc \in SignerClientKinds,
          abi \in ABIs, b \in Bytecodes, a \in ArgLists,
          gl \in CallerGasLimits, gp \in CallerGasPrices :
         Set(t, [task[t] EXCEPT !.pc = "contract_deploy", !.op = "Contract.deploy",
                                !.client = cl, !.signer = sg, !.signerClient = sc,
                                !.abi = abi, !.bytecode = b, !.args = a,
                                !.tx0 = Transaction(NoAddress, <<>>, 0, None, gp, gl)])
    /\ UNCHANGED <<clock, chain>>

\* Contract.deploy up to account.send_transaction: deploy_data is the
\* bytecode, followed by the encoded arguments when there are any
ContractDeploy(t) ==
    /\ task[t].pc = "contract_deploy"
    /\ LET r == task[t]
           data == r.bytecode \o EncodeConstructorArguments(r.args)
           tx == Transaction(NoAddress, data, 0, None, r.tx0.gas_price, r.tx0.gas_limit)
       IN IF r.args # <<>> /\ ~r.abi.has_constructor
          THEN Set(t, Fail(r, "ValueError", "ABI does not contain a constructor", ""))
          ELSE IF r.args # <<>> /\ Len(r.args) # Arity("constructor")
          THEN Set(t, Fail(r, "ValueError", "Failed to encode constructor arguments", ""))
          ELSE Set(t, [r EXCEPT !.pc = "acct_nonce", !.tx0 = tx, !.tx = tx])
    /\ UNCHANGED <<clock, chain>>

\* the sends of the same account that fetched a nonce and have not yet
\* submitted their transaction
Reserved(t) ==
    Cardinality({u \in DOMAIN task \ {t} :
                   /\ task[u].op \in {"Account.send_transaction", "Contract.execute",
                                      "Contract.deploy"}
                   /\ task[u].nodeNonce # None
                   /\ task[u].pc \in {"acct_gas", "acct_sign", "acct_sign_checks",
                                     "acct_send"}})

\* an account that counts its own unsubmitted sends on top of the node's answer
AssignedNonceReserving(pending, reserved) == pending + reserved

\* tx.nonce = await client.get_transaction_count(self.address): the node's
\* answer as it is; the account keeps no count and no lock of its own
AssignedNonce(pending, reserved) == pending

\* if tx.nonce is None
NeedsNonce(tx) == tx.nonce = None

\* a send that estimates the gas of every transaction
NeedsGasLimitAlways(tx) == TRUE

\* if tx.gas_limit is None
NeedsGasLimit(tx) == tx.gas_limit = None

\* if tx.nonce is None: tx.nonce = await client.get_transaction_count(self.address)
AcctNonce(t) ==
    /\ task[t].pc = "acct_nonce"
    /\ LET r == task[t]
       IN IF ~NeedsNonce(r.tx)
          THEN Set(t, [r EXCEPT !.pc = "acct_gas"])
          ELSE IF ~HasMethod(r.client, "get_transaction_count")
          THEN Set(t, Fail(r, "AttributeError",
                           "client has no attribute 'get_transaction_count'", ""))
          ELSE IF IsStub(r.client, "get_transaction_count")
          THEN Set(t, [r EXCEPT !.pc = "acct_gas", !.stubbed = @ + 1])
          ELSE \E k \in Outcomes(r.client) :
                 LET q == Ask(r, "get_transaction_count", k)
                 IN IF RpcOk(k)
                    THEN \E n \in PendingNonces :
                           Set(t, [q EXCEPT !.pc = "acct_gas",
                                            !.tx.nonce = AssignedNonce(n, Reserved(t)),
                                            !.nodeNonce = n])
                    ELSE Set(t, Fail(q, "RuntimeError", "Failed to get nonce", k))
    /\ UNCHANGED <<clock, chain>>

\* tx.gas_limit = min(MAX_GAS, int(estimate * 1.1))
BufferedGasLimit(estimate) == Min(MAX_GAS, Margin10(estimate))

\* if tx.gas_limit is None: estimate = await client.estimate_gas(tx)
AcctGas(t) ==
    /\ task[t].pc = "acct_gas"
    /\ LET r == task[t]
       IN IF ~NeedsGasLimit(r.tx)
          THEN Set(t, [r EXCEPT !.pc = "acct_sign"])
          ELSE \E k \in Outcomes(r.client) :
                 LET q == Ask(r, "estimate_gas", k)
                 IN IF RpcOk(k)
                    THEN \E e \in GasEstimates :
                           Set(t, [q EXCEPT !.pc = "acct_sign", !.nodeEstimate = e,
                                            !.tx.gas_limit = BufferedGasLimit(e)])
                    ELSE Set(t, Fail(q, "RuntimeError", "Gas estimation failed", k))
    /\ UNCHANGED <<clock, chain>>

\* signed_tx = await self.sign_transaction(tx)
AcctSign(t) ==
    /\ task[t].pc = "acct_sign"
    /\ SignTransaction(t, task[t], "acct_sign_checks", "acct_send")
    /\ UNCHANGED <<clock, chain>>

\* the signing goes on with the nonce the signer fetched
AcctSignChecks(t) ==
    /\ task[t].pc = "acct_sign_checks"
    /\ SignFromChecks(t, task[t], "acct_send")
    /\ UNCHANGED <<clock, chain>>

\* what the caller of the send gets once the node accepted the bytes:
\* the hash, and from Contract.deploy also cls(Address(bytes(20)), abi)
SendResult(r, hash) ==
    IF r.op = "Contract.deploy"
    THEN Returned(NoReceipt, hash, ZeroAddress, <<>>)
    ELSE Returned(NoReceipt, hash, NoAddress, <<>>)

\* a send that offers the bytes to the node a second time when the first
\* request fails
AcctSendRetrying(t) ==
    /\ task[t].pc = "acct_send"
    /\ \E k \in Outcomes(task[t].client) :
         LET q == Ask(task[t], "send_raw_transaction", k)
             first == \A i \in 1..Len(task[t].trace) :
                         task[t].trace[i] # "send_raw_transaction"
         IN IF RpcOk(k)
            THEN /\ Set(t, [q EXCEPT !.pc = "done", !.hash = HashOf(t),
                                     !.result = SendResult(q, HashOf(t))])
                 /\ chain' = [chain EXCEPT ![t].submitted = q.raw]
            ELSE IF first
            THEN /\ Set(t, q)
                 /\ UNCHANGED chain
            ELSE /\ Set(t, Fail(q, "RuntimeError", "Failed to send raw transaction", k))
                 /\ UNCHANGED chain
    /\ UNCHANGED clock

\* return await client.send_raw_transaction(signed_tx.raw_tx)
AcctSend(t) ==
    /\ task[t].pc = "acct_send"
    /\ \E k \in Outcomes(task[t].client) :
         LET q == Ask(task[t], "send_raw_transaction", k)
         IN IF RpcOk(k)
            THEN /\ Set(t, [q EXCEPT !.pc = "done", !.hash = HashOf(t),
                                     !.result = SendResult(q, HashOf(t))])
                 /\ chain' = [chain EXCEPT ![t].submitted = q.raw]
            ELSE /\ Set(t, Fail(q, "RuntimeError", "Failed to send raw transaction", k))
                 /\ UNCHANGED chain
    /\ UNCHANGED clock

(* --------------------------- read-only calls -------------------------- *)

BlockTags == {"", "latest", "pending"}

\* another default block
BlockIdentifierPending(given) == IF given = "" THEN "pending" ELSE given

\* block_identifier: str = "latest"; "" stands for an argument left out
BlockIdentifier(given) == IF given = "" THEN "latest" ELSE given

ReturnData == {<<>>, <<"42">>}

\* ABI.decode_function_result: nothing for empty data or a function
\* without outputs, else one value per declared output
DecodeFunctionResult(method, data) ==
    IF data = <<>> THEN <<>> ELSE IF method = "get" THEN data ELSE <<>>

\* contract.call(client, method_name, *args, block_identifier=...)
StartContractCall(t) ==
    /\ task[t].pc = "idle"
    /\ \E cl \in ClientKinds, m \in MethodNames, a \in ArgLists, b \in BlockTags,
          abi \in ABIs :
         Set(t, [task[t] EXCEPT !.pc = "contract_call", !.op = "Contract.call",
                                !.client = cl, !.method = m, !.args = a, !.block = b,
                                !.abi = abi])
    /\ UNCHANGED <<clock, chain>>

\* client.call(contract, method, *args): return await contract.call(self, ...)
StartClientCall(t) ==
    /\ task[t].pc = "idle"
    /\ \E m \in MethodNames, a \in ArgLists :
         Set(t, [task[t] EXCEPT !.pc = "contract_call", !.op = "Client.call",
                                !.client = "Client", !.method = m, !.args = a, !.block = ""])
    /\ UNCHANGED <<clock, chain>>

\* Contract.call: result = await client.call(tx, block_identifier).  On the
\* library Client that is call(contract=tx, method=block_identifier), which
\* evaluates tx.call, an attribute a Transaction does not have.
ContractCall(t) ==
    /\ task[t].pc = "contract_call"
    /\ LET r == task[t]
           tx == Transaction(ContractAddress, EncodeFunctionData(r.method, r.args), 0,
                             None, None, None)
       IN IF r.method \notin r.abi.methods
          THEN Set(t, Fail(r, "ValueError", "Function not found in ABI", ""))
          ELSE IF Len(r.args) # Arity(r.method)
          THEN Set(t, Fail(r, "Web3Error", "arguments do not match the function", ""))
          ELSE IF r.client = "Client"
          THEN Set(t, Fail([r EXCEPT !.tx = tx], "AttributeError",
                           "'Transaction' object has no attribute 'call'", ""))
          ELSE \E k \in Outcomes(r.client) :
                 LET q == [Ask(r, "call", k) EXCEPT
                             !.tx = tx,
                             !.calls = Append(@, [to |-> tx.to, data |-> tx.data,
                                                  block |-> BlockIdentifier(r.block)])]
                 IN IF RpcOk(k)
                    THEN \E d \in ReturnData :
                           Set(t, [q EXCEPT !.pc = "done",
                                     !.result = Returned(NoReceipt, NoHash, NoAddress,
                                                   DecodeFunctionResult(q.method, d))])
                    ELSE Set(t, Fail(q, "RuntimeError", "call failed", k))
    /\ UNCHANGED <<clock, chain>>

(* ------------------- Client._call, chain_id, Client.new ---------------- *)

\* the JSON value of a member: a hex string, a number, null
HexString == [type |-> "string", text |-> "0x12ad11", num |-> 0]
HexOne == [type |-> "string", text |-> "0x1", num |-> 0]
Number == [type |-> "number", text |-> "", num |-> 1223953]
Null == [type |-> "null", text |-> "", num |-> 0]

\* the "result" member of a response body: <<>> when absent, else <<value>>
ResultMembers == {<<>>, <<HexString>>, <<HexOne>>, <<Number>>, <<Null>>}

\* the "error" member: <<>> when absent, else the error object, whose
\* "message" member is <<>> when absent
ErrorMembers == {<<>>, <<[message |-> <<"nonce too low">>]>>, <<[message |-> <<>>]>>}

\* the bodies HttpClient.post can hand to Client._call
Responses == [result : ResultMembers, error : ErrorMembers]

NoResponse == [result |-> <<>>, error |-> <<>>]

\* the answer in the vocabulary of RpcKinds
RpcKind(response) ==
    IF response.error # <<>>
    THEN (IF response.result # <<>> THEN "both" ELSE "error")
    ELSE (IF response.result # <<>> THEN "result" ELSE "neither")

\* a _call that looks for the result first
CallResultFirst(response) ==
    IF response.result # <<>>
    THEN [raised |-> FALSE, text |-> <<>>, value |-> response.result[1]]
    ELSE IF response.error # <<>>
    THEN [raised |-> TRUE, value |-> Null,
          text |-> <<"JSON-RPC error">> \o
                   (IF response.error[1].message = <<>> THEN <<"Unknown error">>
                    ELSE response.error[1].message)]
    ELSE [raised |-> TRUE, value |-> Null,
          text |-> <<"JSON-RPC response missing 'result' field">>]

\* Client._call after post returned: if "error" in response: raise
\* RuntimeError(f"JSON-RPC error: {message}") with message =
\* error.get("message", "Unknown error"); if "result" not in response:
\* raise RuntimeError(...); return response["result"]
Call(response) ==
    IF response.error # <<>>
    THEN [raised |-> TRUE, value |-> Null,
          text |-> <<"JSON-RPC error">> \o
                   (IF response.error[1].message = <<>> THEN <<"Unknown error">>
                    ELSE response.error[1].message)]
    ELSE IF response.result = <<>>
    THEN [raised |-> TRUE, value |-> Null,
          text |-> <<"JSON-RPC response missing 'result' field">>]
    ELSE [raised |-> FALSE, text |-> <<>>, value |-> response.result[1]]

\* int(response, 16) if isinstance(response, str) else int(response);
\* int(None) raises TypeError
ToInt(value) ==
    CASE value.type = "string" ->
           [raised |-> FALSE, text |-> <<>>,
            num |-> IF value.text = "0x12ad11" THEN 1223953 ELSE 1]
      [] value.type = "number" -> [raised |-> FALSE, text |-> <<>>, num |-> value.num]
      [] OTHER -> [raised |-> TRUE, num |-> None,
                   text |-> <<"int() argument must be a string or a real number">>]

\* what HttpClient.post does: returns the parsed body, raises a requests
\* exception, or raises ValueError("Invalid JSON response")
PostKinds == {"response", "transport", "badjson"}

\* Client.chain_id over one post: the value, or
\* RuntimeError(f"Failed to get chain ID: {e}") for every exception
ChainIdOutcome(post, response) ==
    IF post # "response"
    THEN [raised |-> TRUE, num |-> None, cause |-> "transport",
          text |-> <<"Failed to get chain ID", post>>]
    ELSE LET c == Call(response)
             n == ToInt(c.value)
         IN IF c.raised
            THEN [raised |-> TRUE, num |-> None, cause |-> RpcKind(response),
                  text |-> <<"Failed to get chain ID">> \o c.text]
            ELSE IF n.raised
            THEN [raised |-> TRUE, num |-> None, cause |-> "decode",
                  text |-> <<"Failed to get chain ID">> \o n.text]
            ELSE [raised |-> FALSE, num |-> n.num, cause |-> "", text |-> <<>>]

\* await client.chain_id()
StartChainId(t) ==
    /\ task[t].pc = "idle"
    /\ Set(t, [task[t] EXCEPT !.pc = "chain_id", !.op = "Client.chain_id",
                              !.client = "Client"])
    /\ UNCHANGED <<clock, chain>>

ChainId(t) ==
    /\ task[t].pc = "chain_id"
    /\ \E p \in PostKinds, resp \in Responses :
         /\ p # "response" => resp = NoResponse
         /\ LET o == ChainIdOutcome(p, resp)
                q == [Log(task[t], "eth_chainId") EXCEPT !.post = p, !.response = resp,
                                                          !.error_text = o.text]
            IN IF o.raised
               THEN Set(t, Fail(q, "RuntimeError", "Failed to get chain ID", o.cause))
               ELSE Set(t, [q EXCEPT !.pc = "done",
                                     !.result = Returned(NoReceipt, NoHash, NoAddress,
                                                         <<o.num>>)])
    /\ UNCHANGED <<clock, chain>>

\* the HTTP clients a Client can hold: the DefaultHttpClient of __init__,
\* the caller's own, the ones with_interceptor and with_logger build
HttpClients == {"default", "custom", "intercepting", "logging"}

ClientOptions == {"with_http_client", "with_interceptor", "with_logger"}

\* each option's apply_option assigns client._http_client
OptionHttpClient(opt) ==
    CASE opt = "with_http_client" -> "custom"
      [] opt = "with_interceptor" -> "intercepting"
      [] OTHER -> "logging"

\* a constructor that tests the connection before it applies the options
ApplyClientOptionsLate(http_client, opts) == http_client

\* for opt in opts: client = opt(client)
RECURSIVE ApplyClientOptions(_, _)
ApplyClientOptions(http_client, opts) ==
    IF opts = <<>> THEN http_client
    ELSE ApplyClientOptions(OptionHttpClient(Head(opts)), Tail(opts))

\* how many options a caller passes
MaxOptions == 2

OptionLists == UNION {[1..n -> ClientOptions] : n \in 0..MaxOptions}

\* Client.new(url, *opts) / new_client(url, *opts); unreachable is the HTTP
\* client whose requests do not get through (proxy, credentials, adapter)
StartClientNew(t) ==
    /\ task[t].pc = "idle"
    /\ \E opts \in OptionLists, u \in HttpClients \cup {""} :
         Set(t, [task[t] EXCEPT !.pc = "client_new", !.op = "Client.new",
                                !.client = "Client", !.opts = opts,
                                !.unreachable = u])
    /\ UNCHANGED <<clock, chain>>

\* client = cls(url); the options; try: await client.chain_id()
\* except Exception as e: raise ValueError(...) from e; return client
ClientNew(t) ==
    /\ task[t].pc = "client_new"
    /\ LET r == task[t]
           h == ApplyClientOptions("default", r.opts)
       IN \E p \in PostKinds, resp \in Responses :
            /\ p # "response" => resp = NoResponse
            /\ h = r.unreachable => p = "transport"
            /\ LET o == ChainIdOutcome(p, resp)
                   q == [Log(r, "eth_chainId") EXCEPT !.post = p, !.response = resp,
                                                      !.http = h, !.error_text = o.text]
               IN IF o.raised
                  THEN Set(t, Fail([q EXCEPT !.error_text =
                                               <<"Failed to connect to node">> \o @],
                                   "ValueError", "Failed to connect to node", o.cause))
                  ELSE Set(t, [q EXCEPT !.pc = "done",
                                        !.result = Returned(NoReceipt, NoHash, NoAddress,
                                                            <<"Client">>)])
    /\ UNCHANGED <<clock, chain>>

(* ------------------------------ Account.new --------------------------- *)

\* account._signer after Account.__init__: None
NoSigner == ""

\* with_private_key(key, client) with the hex text of a private key or with
\* a text that is no hexadecimal number, with_signer(signer) with a signer
\* object or with None
AccountOptions ==
    {"with_private_key(valid)", "with_private_key(invalid)",
     "with_signer(signer)", "with_signer(None)"}

AccountOptionLists == UNION {[1..n -> AccountOptions] : n \in 0..MaxOptions}

\* apply_option: account._signer = PrivateKeySigner(private_key, client),
\* whose constructor lets the ValueError of bytes.fromhex pass (its handler
\* is for binascii.Error, which bytes.fromhex does not raise), or
\* account._signer = signer
ApplyAccountOption(account, opt) ==
    CASE opt = "with_private_key(valid)" ->
           [raised |-> FALSE, signer |-> "PrivateKeySigner"]
      [] opt = "with_private_key(invalid)" ->
           [raised |-> TRUE, signer |-> account.signer]
      [] opt = "with_signer(signer)" ->
           [raised |-> FALSE, signer |-> "ClefSigner"]
      [] OTHER ->
           [raised |-> FALSE, signer |-> NoSigner]

\* for opt in opts: account = opt(account)
RECURSIVE ApplyAccountOptions(_, _)
ApplyAccountOptions(account, opts) ==
    IF opts = <<>> \/ account.raised THEN account
    ELSE ApplyAccountOptions(ApplyAccountOption(account, Head(opts)), Tail(opts))

\* a constructor that does not look at what the options left
SignerMissingUnchecked(signer) == FALSE

\* if not account._signer
SignerMissing(signer) == signer = NoSigner

\* Account.new(*opts) / new_account(*opts)
StartAccountNew(t) ==
    /\ task[t].pc = "idle"
    /\ \E opts \in AccountOptionLists :
         Set(t, [task[t] EXCEPT !.pc = "account_new", !.op = "Account.new",
                                !.opts = opts, !.signer = NoSigner])
    /\ UNCHANGED <<clock, chain>>

\* account = cls(); the options; the check; return account
AccountNew(t) ==
    /\ task[t].pc = "account_new"
    /\ LET r == task[t]
           a == ApplyAccountOptions([raised |-> FALSE, signer |-> NoSigner], r.opts)
       IN IF a.raised
          THEN Set(t, Fail(r, "ValueError",
                           "non-hexadecimal number found in fromhex() arg", ""))
          ELSE IF SignerMissing(a.signer)
          THEN Set(t, Fail(r, "ValueError", "Account requires a signer", ""))
          ELSE Set(t, [r EXCEPT !.pc = "done", !.signer = a.signer,
                                !.result = Returned(NoReceipt, NoHash, NoAddress,
                                                    <<"Account">>)])
    /\ UNCHANGED <<clock, chain>>

Accessors == {"address", "signer"}

\* account.address / account.signer on the object Account.new returned:
\* if not self._signer: raise RuntimeError("Account has no signer")
AccountAccessor(t) ==
    /\ task[t].op = "Account.new"
    /\ task[t].pc = "done"
    /\ task[t].result.kind = "returned"
    /\ task[t].accessor.name = ""
    /\ \E name \in Accessors :
         Set(t, [task[t] EXCEPT !.accessor =
                   [name |-> name,
                    raised |-> task[t].signer = NoSigner,
                    text |-> IF task[t].signer = NoSigner
                             THEN "Account has no signer" ELSE ""]])
    /\ UNCHANGED <<clock, chain>>

(* ------------------- a read that follows a confirmed write ------------- *)

\* what the contract's get returns at the node once the submitted set(v)
\* has been mined with success: the argument of that set
StoredValue(t) ==
    IF chain[t].mined /\ chain[t].receipt.status /\ Len(chain[t].submitted[1].tx.data) = 2
    THEN <<chain[t].submitted[1].tx.data[2]>>
    ELSE <<>>

\* contract.call(client, "get") made after contract.execute(client, account,
\* "set", v) returned and the receipt of its transaction reported success
CallAfterExecute(t) ==
    /\ task[t].op = "Contract.execute"
    /\ task[t].pc = "done"
    /\ task[t].method = "set"
    /\ task[t].result.kind = "returned"
    /\ chain[t].mined
    /\ chain[t].receipt.status
    /\ task[t].read.kind = "pending"
    /\ LET r == task[t]
       IN IF r.client = "Client"
          THEN Set(t, [r EXCEPT !.read =
                         Raised("AttributeError",
                                "'Transaction' object has no attribute 'call'", "")])
          ELSE \E k \in Outcomes(r.client) :
                 IF RpcOk(k)
                 THEN Set(t, [r EXCEPT !.read =
                                Returned(NoReceipt, NoHash, NoAddress,
                                         DecodeFunctionResult("get", StoredValue(t)))])
                 ELSE Set(t, [r EXCEPT !.read = Raised("RuntimeError", "call failed", k)])
    /\ UNCHANGED <<clock, chain>>

(* ------------------------------ sign_message -------------------------- *)

\* a signature as the number of bytes under each key of the returned dict
Signature(r, s, v) == [r |-> r, s |-> s, v |-> v]

\* the bytes the integers r and s of a signature need: a value below
\* 2^248 needs fewer than 32
NeededBytes == {31, 32}

\* int.to_bytes(length, byteorder="big") of a value that needs `needed`
\* bytes: padded to `length` bytes, OverflowError (None) when it does not fit
ToBytesLength(needed, length) == IF needed > length THEN None ELSE length

\* PrivateKeySigner.sign_message: r and s as 32 bytes, v as 1 byte
LocalSignature(rNeeded, sNeeded) ==
    Signature(ToBytesLength(rNeeded, 32), ToBytesLength(sNeeded, 32), ToBytesLength(1, 1))

\* the number of bytes of the slice signature[from:to] of n bytes
SliceLength(n, from, to) ==
    IF Min(to, n) > from THEN Min(to, n) - from ELSE 0

\* what _post("account_signData", ...) can bring: a failed request, an error
\* object, no result, a result that is no string, a hex string of n bytes
SignDataKinds == {"transport", "error", "empty", "notstr", "hex64", "hex65", "hex66"}

HexBytes(kind) ==
    CASE kind = "hex64" -> 64
      [] kind = "hex65" -> 65
      [] OTHER -> 66

\* a signer that slices whatever the service sent
SignatureLengthAny(n) == TRUE

\* if len(signature) != 65: raise RuntimeError("Invalid signature length")
SignatureLengthValid(n) == n = 65

\* signer.sign_message(message), called directly or through
\* Account.sign_message, which only delegates
StartSignMessage(t) ==
    /\ task[t].pc = "idle"
    /\ \E sg \in SignerKinds, site \in {"Account.sign_message", "Signer.sign_message"} :
         Set(t, [task[t] EXCEPT !.pc = "sign_message", !.op = site, !.signer = sg])
    /\ UNCHANGED <<clock, chain>>

SignMessage(t) ==
    /\ task[t].pc = "sign_message"
    /\ LET r == task[t]
           ret(q, sig) == [q EXCEPT !.pc = "done", !.signature = sig,
                                    !.result = Returned(NoReceipt, NoHash, NoAddress,
                                                        <<"signature">>)]
       IN IF r.signer = "PrivateKeySigner"
          THEN \E rn \in NeededBytes, sn \in NeededBytes :
                 Set(t, ret(r, LocalSignature(rn, sn)))
          ELSE \E k \in SignDataKinds :
                 LET q == Ask(r, "account_signData", k)
                     n == HexBytes(k)
                 IN CASE k = "transport" ->
                           Set(t, Fail(q, "RuntimeError", "Failed to communicate with Clef", k))
                      [] k = "error" ->
                           Set(t, Fail(q, "RuntimeError", "Clef signing failed", k))
                      [] k \in {"empty", "notstr"} ->
                           Set(t, Fail(q, "RuntimeError", "Clef returned invalid result", k))
                      [] OTHER ->
                           IF ~SignatureLengthValid(n)
                           THEN Set(t, Fail(q, "RuntimeError", "Invalid signature length", k))
                           ELSE Set(t, ret(q, Signature(SliceLength(n, 0, 32),
                                                        SliceLength(n, 32, 64),
                                                        SliceLength(n, 64, 65))))
    /\ UNCHANGED <<clock, chain>>

(* ------------------------------- class ABI ---------------------------- *)

\* one item of a raw ABI list: item.get("type"), item.get("name") ("" when
\* the item has no name) and the numbers of its declared inputs and outputs
Item(type, name, inputs, outputs) ==
    [type |-> type, name |-> name, inputs |-> inputs, outputs |-> outputs]

NoItem == Item("", "", 0, 0)

\* a getter, an overload of it that takes an argument and has no outputs, a
\* setter, an event that shares the getter's name, an event, a constructor,
\* a function without a name
Items ==
    {Item("function", "get", 0, 1), Item("function", "get", 1, 0),
     Item("function", "set", 1, 0),
     Item("event", "get", 0, 0), Item("event", "Changed", 1, 0),
     Item("constructor", "", 1, 0), Item("function", "", 0, 1)}

\* how many items a raw ABI has
MaxItems == 2

\* two functions of one signature: the interface of a contract has none
Collides(raw_abi) ==
    \E i, j \in DOMAIN raw_abi :
        /\ i < j
        /\ raw_abi[i].type = "function" /\ raw_abi[j].type = "function"
        /\ raw_abi[i].name = raw_abi[j].name
        /\ raw_abi[i].inputs = raw_abi[j].inputs

\* json.loads(json_str) when it is the list of a contract's interface
RawABIs == {raw \in UNION {[1..n -> Items] : n \in 0..MaxItems} : ~Collides(raw)}

\* the names callers look up
LookupNames == {"get", "set", "Changed", ""}

\* a dict as the sequence of its (key, item) pairs in insertion order
RECURSIVE Position(_, _, _)
Position(dict, key, i) ==
    IF i > Len(dict) THEN 0
    ELSE IF dict[i].key = key THEN i
    ELSE Position(dict, key, i + 1)

\* an assignment that always adds a pair
SetItemAppend(dict, key, item) == Append(dict, [key |-> key, item |-> item])

\* dict[key] = item: replaces the item of a key the dict has
SetItem(dict, key, item) ==
    IF Position(dict, key, 1) = 0
    THEN Append(dict, [key |-> key, item |-> item])
    ELSE [dict EXCEPT ![Position(dict, key, 1)] = [key |-> key, item |-> item]]

\* dict.get(key): None (NoItem) for a key the dict does not have
Get(dict, key) ==
    IF Position(dict, key, 1) = 0 THEN NoItem ELSE dict[Position(dict, key, 1)].item

\* ABI.__init__: for item in raw_abi: items without a name are passed
\* over, functions go to _methods, events to _events
RECURSIVE Categorize(_, _)
Categorize(abi, raw_abi) ==
    IF raw_abi = <<>> THEN abi
    ELSE LET item == Head(raw_abi)
             next == IF item.name = "" THEN abi
                     ELSE IF item.type = "function"
                     THEN [abi EXCEPT !.methods = SetItem(@, item.name, item)]
                     ELSE IF item.type = "event"
                     THEN [abi EXCEPT !.events = SetItem(@, item.name, item)]
                     ELSE abi
         IN Categorize(next, Tail(raw_abi))

\* ABI(raw_abi) / abi_from_json(json_str): self._raw_abi = raw_abi, then
\* the two tables
ABI(raw_abi) == Categorize([raw |-> raw_abi, methods |-> <<>>, events |-> <<>>], raw_abi)

\* a lookup that also answers with an event of that name
get_method_or_event(abi, name) ==
    IF Position(abi.methods, name, 1) # 0 THEN Get(abi.methods, name)
    ELSE Get(abi.events, name)

\* ABI.get_method: self._methods.get(name)
get_method(abi, name) == Get(abi.methods, name)

\* ABI.get_event: self._events.get(name)
get_event(abi, name) == Get(abi.events, name)

\* a decoder without the test for empty data: decoding fails and the
\* fallback int.from_bytes(b"") yields 0
DecodeValuesOfEmpty(outputs, data) ==
    IF outputs = 0 THEN <<>> ELSE IF data = <<>> THEN <<"0">> ELSE data

\* decode_function_result after the lookup: [] for empty data, [] for a
\* method without outputs, else the decoded values
DecodeValues(outputs, data) ==
    IF data = <<>> THEN <<>> ELSE IF outputs = 0 THEN <<>> ELSE data

AbiOutcome(raised, found, values) ==
    [raised |-> raised, exc |-> IF raised THEN "ValueError" ELSE "",
     found |-> found, values |-> values]

\* getattr(contract.functions, function_name)(*args) on the contract web3
\* builds from the raw list: the call is bound to the function of that name
\* whose inputs the arguments fit, an overload included
FitsFunction(raw_abi, function_name, args) ==
    \E i \in DOMAIN raw_abi :
        /\ raw_abi[i].type = "function"
        /\ raw_abi[i].name = function_name
        /\ raw_abi[i].inputs = Len(args)

\* the failure of web3 for arguments no function of that name takes
AbiMismatch == [raised |-> TRUE, exc |-> "Web3Error", found |-> NoItem, values |-> <<>>]

\* ABI.encode_function_data(function_name, *args)
encode_function_data(abi, function_name, args) ==
    IF get_method(abi, function_name) = NoItem
    THEN AbiOutcome(TRUE, NoItem, <<>>)
    ELSE IF ~FitsFunction(abi.raw, function_name, args)
    THEN AbiMismatch
    ELSE AbiOutcome(FALSE, NoItem, EncodeFunctionData(function_name, args))

\* ABI.decode_function_result(function_name, data)
decode_function_result(abi, function_name, data) ==
    IF get_method(abi, function_name) = NoItem
    THEN AbiOutcome(TRUE, NoItem, <<>>)
    ELSE AbiOutcome(FALSE, NoItem,
                    DecodeValues(get_method(abi, function_name).outputs, data))

AbiOps == {"get_method", "get_event", "encode_function_data", "decode_function_result"}

\* how many operations a caller makes on one ABI object
MaxAbiUses == 2

\* abi = abi_from_json(json_str)
AbiFromJson(t) ==
    /\ task[t].pc = "idle"
    /\ \E raw \in RawABIs :
         Set(t, [task[t] EXCEPT !.pc = "abi", !.op = "ABI", !.raw_abi = raw,
                                !.tables = ABI(raw)])
    /\ UNCHANGED <<clock, chain>>

\* one lookup, encoding or decoding on the object
AbiUse(t) ==
    /\ task[t].pc = "abi"
    /\ task[t].uses < MaxAbiUses
    /\ \E o \in AbiOps, name \in LookupNames, d \in ReturnData :
         LET r == task[t]
             out == CASE o = "get_method" ->
                            AbiOutcome(FALSE, get_method(r.tables, name), <<>>)
                      [] o = "get_event" ->
                            AbiOutcome(FALSE, get_event(r.tables, name), <<>>)
                      [] o = "encode_function_data" ->
                            encode_function_data(r.tables, name, d)
                      [] OTHER ->
                            decode_function_result(r.tables, name, d)
         IN Set(t, [r EXCEPT !.uses = @ + 1,
                             !.last = [op |-> o, name |-> name, data |-> d, out |-> out]])
    /\ UNCHANGED <<clock, chain>>

(* ------------------------------ class Address ------------------------- *)

\* the number of bytes of an address
AddressLength == 20

\* byte values the inputs are written with: zero, a value whose high hex
\* digit is zero, one with two letter digits, the largest
ByteValues == {0, 10, 171, 255}

\* the lengths of the byte strings given to Address(...)
AddressLengths == {0, AddressLength - 1, AddressLength, AddressLength + 1}

\* the number of leading bytes of an input that vary; the rest are zero
MaxVaried == 2

\* byte strings of the lengths above
AddressInputs ==
    UNION {{[i \in 1..n |-> IF i <= Len(head) THEN head[i] ELSE 0] :
              head \in [1..Min(n, MaxVaried) -> ByteValues]} : n \in AddressLengths}

LowerDigits ==
    <<"0", "1", "2", "3", "4", "5", "6", "7", "8", "9", "a", "b", "c", "d", "e", "f">>
UpperDigits ==
    <<"0", "1", "2", "3", "4", "5", "6", "7", "8", "9", "A", "B", "C", "D", "E", "F">>

\* [0-9a-fA-F]
IsHexDigit(c) == \E i \in 1..16 : LowerDigits[i] = c \/ UpperDigits[i] = c

DigitValue(c) == (CHOOSE i \in 1..16 : LowerDigits[i] = c \/ UpperDigits[i] = c) - 1

\* bytes.hex(): two lower-case digits for every byte
BytesHex(bytes) ==
    [i \in 1..(2 * Len(bytes)) |->
        LET b == bytes[(i + 1) \div 2]
        IN IF i % 2 = 1 THEN LowerDigits[(b \div 16) + 1] ELSE LowerDigits[(b % 16) + 1]]

\* the six ASCII whitespace characters bytes.fromhex passes over: the
\* space, \t, \n, \r, \f and the vertical tab (character 11, written
\* here as the character itself)
VerticalTab == ""
Whitespace == {" ", "\t", "\n", "\r", "\f", VerticalTab}

\* bytes.fromhex from position i on: whitespace before a byte is skipped, a
\* byte is two adjacent hex digits, anything else fails
RECURSIVE FromHexAt(_, _, _)
FromHexAt(text, i, acc) ==
    IF i > Len(text) THEN [raised |-> FALSE, bytes |-> acc]
    ELSE IF text[i] \in Whitespace THEN FromHexAt(text, i + 1, acc)
    ELSE IF i < Len(text) /\ IsHexDigit(text[i]) /\ IsHexDigit(text[i + 1])
    THEN FromHexAt(text, i + 2,
                   Append(acc, 16 * DigitValue(text[i]) + DigitValue(text[i + 1])))
    ELSE [raised |-> TRUE, bytes |-> <<>>]

\* bytes.fromhex(text)
BytesFromHex(text) == FromHexAt(text, 1, <<>>)

\* the result of a constructor or conversion of this class
AddressValue(bytes) == [raised |-> FALSE, exc |-> "", bytes |-> bytes]
AddressError == [raised |-> TRUE, exc |-> "ValueError", bytes |-> <<>>]

\* Address.__init__
Address(address_bytes) ==
    IF Len(address_bytes) # AddressLength THEN AddressError ELSE AddressValue(address_bytes)

\* Address.hex
AddressHex(address) == <<"0", "x">> \o BytesHex(address.bytes)

StartsWith0x(hex_str) == Len(hex_str) >= 2 /\ hex_str[1] = "0" /\ hex_str[2] = "x"

\* Address.PATTERN.match: ^(0x)?[0-9a-fA-F]{40}$, where $ matches at the end
\* of the string and also just before a newline that ends the string
PatternMatch(hex_str) ==
    LET AtEnd(s) == s = <<>> \/ s = <<"\n">>
        AllHex(s) == /\ Len(s) >= 40
                     /\ \A i \in 1..40 : IsHexDigit(s[i])
                     /\ AtEnd(SubSeq(s, 41, Len(s)))
    IN \/ AllHex(hex_str)
       \/ StartsWith0x(hex_str) /\ AllHex(SubSeq(hex_str, 3, Len(hex_str)))

\* a conversion that gives the digits to bytes.fromhex with their prefix
address_from_hex_with_prefix(hex_str) ==
    IF ~PatternMatch(hex_str)
    THEN AddressError
    ELSE LET decoded == BytesFromHex(hex_str)
         IN IF decoded.raised THEN AddressError ELSE Address(decoded.bytes)

\* address_from_hex
address_from_hex(hex_str) ==
    IF ~PatternMatch(hex_str)
    THEN AddressError
    ELSE LET clean_hex == IF StartsWith0x(hex_str)
                          THEN SubSeq(hex_str, 3, Len(hex_str)) ELSE hex_str
             decoded == BytesFromHex(clean_hex)
         IN IF decoded.raised THEN AddressError ELSE Address(decoded.bytes)

\* Address.__eq__ for two values of the class
AddressEq(a, b) == a.bytes = b.bytes

\* a caller builds an Address from bytes, prints it and parses the text back
AddressRoundTrip(t) ==
    /\ task[t].pc = "idle"
    /\ \E bytes \in AddressInputs :
         LET r == [task[t] EXCEPT !.op = "Address", !.addr.input = bytes]
             a == Address(bytes)
         IN IF a.raised
            THEN Set(t, Fail([r EXCEPT !.addr.built = a], a.exc,
                             "Address must be exactly 20 bytes", ""))
            ELSE Set(t, [r EXCEPT !.pc = "done",
                                  !.addr.built = a,
                                  !.addr.hex = AddressHex(a),
                                  !.addr.back = address_from_hex(AddressHex(a)),
                                  !.result = Returned(NoReceipt, NoHash, NoAddress, <<>>)])
    /\ UNCHANGED <<clock, chain>>

\* what a caller writes around the digits of an address: a prefix and an end
HexPrefixes == {<<>>, <<"0", "x">>, <<"0", "X">>}
HexEndings == {<<>>, <<"\n">>, <<" ">>, <<VerticalTab>>, <<"\n", "\n">>, <<"0">>}

\* the digits of an address in lower or upper case, whole, cut short by one
\* digit, or with a blank between two bytes
HexBodies ==
    UNION {LET lower == BytesHex(bytes)
               upper == [i \in 1..Len(lower) |->
                           UpperDigits[DigitValue(lower[i]) + 1]]
           IN {lower, upper, SubSeq(lower, 1, Len(lower) - 1),
               SubSeq(lower, 1, 2) \o <<" ">> \o SubSeq(lower, 3, Len(lower))}
           : bytes \in {b \in AddressInputs : Len(b) = AddressLength}}

\* a caller parses a text: address_from_hex(hex_str)
AddressFromHex(t) ==
    /\ task[t].pc = "idle"
    /\ \E prefix \in HexPrefixes, body \in HexBodies, ending \in HexEndings :
         LET hex_str == prefix \o body \o ending
             a == address_from_hex(hex_str)
             r == [task[t] EXCEPT !.op = "address_from_hex", !.addr.hex = hex_str,
                                  !.addr.back = a]
         IN IF a.raised
            THEN Set(t, Fail(r, a.exc, "Invalid address", ""))
            ELSE Set(t, [r EXCEPT !.pc = "done",
                                  !.result = Returned(NoReceipt, NoHash, NoAddress, <<>>)])
    /\ UNCHANGED <<clock, chain>>

(* ---------------------- ABI encoding and decoding --------------------- *)

\* the number of bytes of one ABI word
WordLength == 32

\* an unsigned integer as the bytes of its big-endian form without leading
\* zeros: <<>> is 0, <<42>> is 42, <<1, 0>> is 256; True is 1 and False is 0
RECURSIVE FromBytes(_)
FromBytes(data) ==
    IF data = <<>> THEN <<>>
    ELSE IF Head(data) = 0 THEN FromBytes(Tail(data))
    ELSE data

\* the word of a value: its bytes after the zeros that fill 32 bytes
ToWord(value) ==
    [i \in 1..WordLength |->
        IF i <= WordLength - Len(value) THEN 0 ELSE value[i - (WordLength - Len(value))]]

\* data[-32:]
LastBytes(data, n) ==
    IF Len(data) <= n THEN data ELSE SubSeq(data, Len(data) - n + 1, Len(data))

\* the values callers pass for a uint256: 0, 42, 256 and 2^256 - 1
UintValues == {<<>>, <<42>>, <<1, 0>>, [i \in 1..WordLength |-> 255]}

\* a function of a raw ABI: its name, its selector (the first four bytes of
\* the hash of its signature), the types of its inputs and of its outputs
Function(name, selector, inputs, outputs) ==
    [name |-> name, selector |-> selector, inputs |-> inputs, outputs |-> outputs]

NoFunction == Function("", <<>>, <<>>, <<>>)

\* get() returns (uint256) and set(uint256) of test/helpers.py,
\* tokenByIndex(uint256) returns (uint256), paused() returns (bool)
Functions ==
    {Function("get", <<109, 76, 230, 60>>, <<>>, <<"uint256">>),
     Function("set", <<96, 254, 71, 177>>, <<"uint256">>, <<>>),
     Function("tokenByIndex", <<79, 108, 204, 231>>, <<"uint256">>, <<"uint256">>),
     Function("paused", <<92, 151, 90, 187>>, <<>>, <<"bool">>)}

\* the argument lists callers pass
ArgTuples == {<<>>} \cup {<<v>> : v \in UintValues}

Decoded(values) == [raised |-> FALSE, exc |-> "", values |-> values]
DecodeError(exc) == [raised |-> TRUE, exc |-> exc, values |-> <<>>]

\* function_call._encode_transaction_data(): web3 rejects arguments that do
\* not match the inputs, else the selector and one word for each argument
RECURSIVE EncodeWords(_)
EncodeWords(args) ==
    IF args = <<>> THEN <<>> ELSE ToWord(Head(args)) \o EncodeWords(Tail(args))

\* ABI.encode_function_data after the lookup of the method
EncodeCall(method, args) ==
    IF Len(args) # Len(method.inputs)
    THEN DecodeError("Web3Error")
    ELSE Decoded(method.selector \o EncodeWords(args))

\* eth_abi's decoder of one word: a uint256 is any 32 bytes, a bool is 0 or 1
DecodeWord(type, word) ==
    IF type = "bool" /\ FromBytes(word) \notin {<<>>, <<1>>}
    THEN DecodeError("DecodingError")
    ELSE Decoded(<<FromBytes(word)>>)

\* eth_abi.decode(types, data): one word for each type from the front of the
\* data; fails when the data ends before the last word; bytes after the last
\* word are not looked at
RECURSIVE Decode(_, _)
Decode(types, data) ==
    IF types = <<>> THEN Decoded(<<>>)
    ELSE IF Len(data) < WordLength THEN DecodeError("InsufficientDataBytes")
    ELSE LET first == DecodeWord(Head(types), SubSeq(data, 1, WordLength))
             rest == Decode(Tail(types), SubSeq(data, WordLength + 1, Len(data)))
         IN IF first.raised THEN first
            ELSE IF rest.raised THEN rest
            ELSE Decoded(first.values \o rest.values)

\* a decoder that reports the failure of the strict decoding
DecodeOutputsStrict(output_types, data) ==
    IF data = <<>> \/ output_types = <<>> THEN Decoded(<<>>)
    ELSE IF Decode(output_types, data).raised THEN DecodeError("ValueError")
    ELSE Decode(output_types, data)

\* ABI.decode_function_result after the lookup of the method: [] for empty
\* data and for no outputs; the strict decoding; when that fails,
\* int.from_bytes(data) for a single uint256 and else every type decoded
\* from data[-32:]
DecodeOutputs(output_types, data) ==
    IF data = <<>> \/ output_types = <<>> THEN Decoded(<<>>)
    ELSE LET strict == Decode(output_types, data)
             each == [i \in 1..Len(output_types) |->
                         Decode(<<output_types[i]>>, LastBytes(data, WordLength))]
         IN IF ~strict.raised THEN strict
            ELSE IF output_types = <<"uint256">> THEN Decoded(<<FromBytes(data)>>)
            ELSE IF \E i \in 1..Len(each) : each[i].raised THEN DecodeError("ValueError")
            ELSE Decoded([i \in 1..Len(each) |-> each[i].values[1]])

\* abi.decode_function_result(name, abi.encode_function_data(name, *args))
AbiRoundTrip(t) ==
    /\ task[t].pc = "idle"
    /\ \E f \in Functions, args \in ArgTuples :
         LET r == [task[t] EXCEPT !.op = "ABI.round_trip", !.codec.fn = f,
                                  !.codec.args = args]
             encoded == EncodeCall(f, args)
             out == DecodeOutputs(f.outputs, encoded.values)
         IN IF encoded.raised
            THEN Set(t, Fail(r, encoded.exc, "arguments do not match the function", ""))
            ELSE IF out.raised
            THEN Set(t, Fail([r EXCEPT !.codec.data = encoded.values, !.codec.out = out],
                             out.exc, "Failed to decode function result", ""))
            ELSE Set(t, [r EXCEPT !.pc = "done", !.codec.data = encoded.values,
                                  !.codec.out = out,
                                  !.result = Returned(NoReceipt, NoHash, NoAddress, <<>>)])
    /\ UNCHANGED <<clock, chain>>

\* the output types of the method whose result is decoded
OutputLists == {<<>>, <<"uint256">>, <<"bool">>, <<"uint256", "uint256">>}

\* the lengths of the return data a node sends: nothing, less than a word,
\* one word, more than a word, two words
ReturnLengths == {0, 1, WordLength - 1, WordLength, WordLength + 1, 2 * WordLength}

\* return data of these lengths: a first byte, zeros, a last byte
ReturnBytes ==
    UNION {{[i \in 1..n |-> IF i = n THEN last ELSE IF i = 1 THEN first ELSE 0] :
              first \in {0, 255}, last \in {0, 1, 42}} : n \in ReturnLengths}

\* abi.decode_function_result(name, data) on the data of a node, for a method
\* the ABI has
AbiDecode(t) ==
    /\ task[t].pc = "idle"
    /\ \E outputs \in OutputLists, data \in ReturnBytes :
         LET out == DecodeOutputs(outputs, data)
             r == [task[t] EXCEPT !.op = "ABI.decode_function_result",
                                  !.codec.fn = [NoFunction EXCEPT !.outputs = outputs],
                                  !.codec.data = data, !.codec.out = out]
         IN IF out.raised
            THEN Set(t, Fail(r, out.exc, "Failed to decode function result", ""))
            ELSE Set(t, [r EXCEPT !.pc = "done",
                                  !.result = Returned(NoReceipt, NoHash, NoAddress, <<>>)])
    /\ UNCHANGED <<clock, chain>>

(* ------------- a second send of the same Transaction object ----------- *)

\* a send that completes a copy and leaves the caller's object as it was
CallerObjectCopied(r) == r.tx0

\* the Transaction the caller holds after a call: the parameter tx is the
\* caller's own object, and tx.nonce = ..., tx.gas_limit = ... assign to it
CallerObject(r) == r.tx

\* after a failure of its first account.send_transaction(client, tx) or
\* signer.sign_transaction(tx) the caller makes the same call again, with
\* the same Transaction object
SendAgain(t) ==
    /\ task[t].pc = "done"
    /\ task[t].op \in {"Account.send_transaction", "Signer.sign_transaction"}
    /\ task[t].result.kind = "raised"
    /\ ~task[t].earlier.sent
    /\ Len(task[t].handed) <= 1
    /\ LET r == task[t]
           tx == CallerObject(r)
       IN Set(t, [r EXCEPT !.pc = IF r.op = "Account.send_transaction"
                                  THEN "acct_nonce" ELSE "sign",
                           !.earlier = [sent |-> TRUE, tx |-> r.tx,
                                        nodeNonce |-> r.nodeNonce,
                                        nodeEstimate |-> r.nodeEstimate],
                           !.tx0 = tx, !.tx = tx,
                           !.result = NoResult, !.trace = <<>>, !.answers = <<>>,
                           !.handed = <<>>, !.raw = <<>>, !.stubbed = 0,
                           !.nodeNonce = None, !.nodeEstimate = None])
    /\ UNCHANGED <<clock, chain>>

Next ==
    \E t \in Tasks :
        \/ StartAccountSend(t) \/ StartContractExecute(t) \/ StartContractDeploy(t)
        \/ ContractExecute(t) \/ ContractDeploy(t)
        \/ AcctNonce(t) \/ AcctGas(t) \/ AcctSign(t) \/ AcctSignChecks(t) \/ AcctSend(t)
        \/ StartContractCall(t) \/ StartClientCall(t) \/ ContractCall(t)
        \/ StartSign(t) \/ Sign(t) \/ SignChecks(t) \/ SignReturn(t) \/ CallerMutates(t) \/ SignAgain(t)
        \/ StartClefInit(t) \/ ClefInit(t)
        \/ StartChainId(t) \/ ChainId(t) \/ StartClientNew(t) \/ ClientNew(t)
        \/ StartAccountNew(t) \/ AccountNew(t) \/ AccountAccessor(t)
        \/ CallAfterExecute(t) \/ StartSignMessage(t) \/ SignMessage(t)
        \/ AbiFromJson(t) \/ AbiUse(t) \/ AddressRoundTrip(t) \/ AddressFromHex(t)
        \/ AbiRoundTrip(t) \/ AbiDecode(t) \/ SendAgain(t)
        \/ StartClientSend(t) \/ StartClientExecute(t) \/ StartClientDeploy(t)
        \/ ClientExecute(t) \/ ClientDeployContract(t) \/ ClientNonce(t) \/ ClientGas(t)
        \/ StartTransact(t) \/ StartWait(t) \/ Transact(t) \/ Poll(t) \/ Sleep(t)
        \/ Cancel(t) \/ Mine(t)

Spec == Init /\ [][Next]_vars

\* the steps of a task are scheduled again and again: the event loop resumes
\* a coroutine whose sleep or request has ended; the node owes nothing
TaskStep ==
    \E t \in Tasks :
        \/ ContractExecute(t) \/ ContractDeploy(t)
        \/ AcctNonce(t) \/ AcctGas(t) \/ AcctSign(t) \/ AcctSignChecks(t) \/ AcctSend(t)
        \/ ContractCall(t) \/ Sign(t) \/ SignChecks(t) \/ SignReturn(t) \/ ClefInit(t) \/ ChainId(t) \/ ClientNew(t)
        \/ AccountNew(t) \/ SignMessage(t)
        \/ ClientExecute(t) \/ ClientDeployContract(t) \/ ClientNonce(t) \/ ClientGas(t)
        \/ Transact(t) \/ Poll(t) \/ Sleep(t)

FairSpec == Init /\ [][Next]_vars /\ WF_vars(TaskStep)

(* ------------------- concurrent calls on one event loop --------------- *)

\* the calls of asyncio.gather(call_1, call_2): coroutines of one thread
ConcTasks == {1, 2}

\* the checks of sign_transaction pass and the chain id can be asked for
AsksChainId(r) == MissingField(r.tx) = "" /\ HasMethod(r.signerClient, "chain_id")

\* the next step of the call is a request to a client.  sign_transaction
\* asks for a missing nonce before it checks anything; the inherited stub
\* is awaited without a request.
NeedsRpc(r) ==
    CASE r.pc = "acct_nonce" ->
             /\ r.tx.nonce = None
             /\ HasMethod(r.client, "get_transaction_count")
             /\ ~IsStub(r.client, "get_transaction_count")
      [] r.pc = "acct_gas" -> r.tx.gas_limit = None
      [] r.pc = "acct_sign" ->
             IF r.tx.nonce # None \/ IsStub(r.signerClient, "get_transaction_count")
             THEN AsksChainId(r)
             ELSE HasMethod(r.signerClient, "get_transaction_count")
      [] r.pc = "acct_sign_checks" -> AsksChainId(r)
      [] r.pc \in {"acct_send", "transact", "poll"} -> TRUE
      [] OTHER -> FALSE

\* the client that request goes to
RpcClient(r) ==
    IF r.pc \in {"acct_sign", "acct_sign_checks"} THEN r.signerClient ELSE r.client

\* the request was sent and its answer has not been taken yet
InFlight(r) == r.requested > Len(r.trace)

\* Client._call is `async def` but holds no await: response =
\* self._http_client.post(url, request) is a synchronous requests call, so
\* awaiting an RPC of the library's Client never suspends the coroutine.  A
\* client that awaits its transport does suspend.
Suspends(clientKind) == clientKind # "Client"

\* a loop that waits with time.sleep
SuspendedInRpcOnly(r) == InFlight(r) /\ Suspends(RpcClient(r))

\* the coroutine is suspended at an await: in asyncio.sleep, or in a
\* request of a client that suspends
Suspended(r) ==
    \/ r.pc = "sleep"
    \/ InFlight(r) /\ Suspends(RpcClient(r))

\* the coroutine runs, or blocks, on the event loop's thread
HoldsThread(r) == r.pc \notin {"idle", "done"} /\ ~Suspended(r)

\* the event loop can start or resume call t
ThreadFree(t) == \A u \in DOMAIN task \ {t} : ~HoldsThread(task[u])

\* the pending nonce of the account at the node: its transactions so far
NodePendingNonce ==
    5 + Cardinality({u \in DOMAIN chain :
                       task[u].op = "Account.send_transaction" /\ chain[u].submitted # <<>>})

\* Client._wait_for_transaction(tx_hash, timeout_secs=1): the loop starts
\* running as soon as the event loop picks the call
ConcStartWait(t) ==
    /\ task[t].pc = "idle"
    /\ ThreadFree(t)
    /\ Set(t, [task[t] EXCEPT !.pc = "poll", !.op = "Client._wait_for_transaction",
                              !.hash = HashOf(t), !.start = clock,
                              !.timeout = 1, !.interval = DefaultPollIntervalMs])
    /\ chain' = [chain EXCEPT ![t].submitted = RawOf(t)]
    /\ UNCHANGED clock

\* account.send_transaction(client, tx) of one and the same account, the
\* signer built on the same client
ConcStartSend(t) ==
    /\ task[t].pc = "idle"
    /\ ThreadFree(t)
    /\ \E cl \in ClientKinds, n \in CallerNonces :
         LET tx == Transaction(RecipientAddress, <<>>, 100, n, 2, None)
         IN Set(t, [task[t] EXCEPT !.pc = "acct_nonce", !.op = "Account.send_transaction",
                                   !.client = cl, !.signer = "PrivateKeySigner",
                                   !.signerClient = cl, !.tx0 = tx, !.tx = tx])
    /\ UNCHANGED <<clock, chain>>

\* the running coroutine reaches `await client.<rpc>(...)`: the request leaves
Request(t) ==
    /\ HoldsThread(task[t])
    /\ NeedsRpc(task[t])
    /\ ~InFlight(task[t])
    /\ Set(t, [task[t] EXCEPT !.requested = Len(task[t].trace) + 1])
    /\ UNCHANGED <<clock, chain>>

\* the node answers the nonce query of a send with the account's pending nonce
AnswerNonce(t) ==
    /\ AcctNonce(t)
    /\ task'[t].nodeNonce \in {None, NodePendingNonce}

\* the coroutine goes on: with the answer to its request, after its sleep,
\* or with a step that needs no request
Resume(t) ==
    /\ ThreadFree(t)
    /\ NeedsRpc(task[t]) => InFlight(task[t])
    /\ \/ AnswerNonce(t) \/ AcctGas(t) \/ AcctSign(t) \/ AcctSend(t)
       \/ Poll(t) \/ Sleep(t)

ConcInit ==
    /\ task = [t \in ConcTasks |-> NewTask]
    /\ clock = 0
    /\ chain = [t \in ConcTasks |-> NoChain]

ConcNext ==
    \E t \in ConcTasks :
        \/ ConcStartWait(t) \/ ConcStartSend(t) \/ Request(t) \/ Resume(t)

ConcSpec == ConcInit /\ [][ConcNext]_vars

(* ------------------------------ claims -------------------------------- *)

Done(t) == task[t].pc = "done"

OrchestratedOps ==
    {"Client.send", "Client.execute", "Client.deploy_contract", "Account.send_transaction"}

DeployOps == {"Client.deploy_contract", "Contract.deploy"}

ReadOps == {"Contract.call", "Client.call"}

AllAbsent(tx) == tx.nonce = None /\ tx.gas_limit = None /\ tx.gas_price = None

\* the six steps of a send, by the name of the operation that performs them
StepOf(event) ==
    CASE event \in {"pending_nonce_at", "get_transaction_count"} -> "nonce"
      [] OTHER -> event

CanonicalOrder ==
    <<"nonce", "estimate_gas", "gas_price", "sign_transaction",
      "send_raw_transaction", "get_transaction_receipt">>

IsStep(event) == StepOf(event) \in {CanonicalOrder[i] : i \in 1..Len(CanonicalOrder)}

\* the steps of a trace, in the order they were started
StepsIn(trace) == SelectSeq(trace, IsStep)

\* the steps follow the canonical order, the receipt query repeating
InOrder(steps) ==
    \A i \in 1..Len(steps) :
        StepOf(steps[i]) = CanonicalOrder[IF i < Len(CanonicalOrder) THEN i ELSE Len(CanonicalOrder)]

\* C1: an orchestrated send started with nonce, gas limit and gas price all
\* absent performs nonce fetch, estimate_gas, gas-price fetch, sign_transaction,
\* send_raw_transaction and the first receipt query in this order, none
\* skipped or reordered, and it returns only after all six.
C1_FieldCompletionOrder ==
    \A t \in Tasks :
        (task[t].op \in OrchestratedOps /\ AllAbsent(task[t].tx0)) =>
            /\ InOrder(StepsIn(task[t].trace))
            /\ task[t].result.kind = "returned" =>
                   Len(StepsIn(task[t].trace)) >= Len(CanonicalOrder)

\* C2: in an orchestrated send started without nonce, gas limit and gas
\* price, the transaction handed to sign_transaction has the pending nonce
\* the client returned, the gas estimate plus 20%, and the network gas price.
C2_CompletedFieldsAtSigner ==
    \A t \in Tasks :
        (/\ task[t].op \in OrchestratedOps
         /\ AllAbsent(task[t].tx0)
         /\ task[t].handed # <<>>) =>
            /\ task[t].handed[1].nonce = task[t].nodeNonce
            /\ task[t].nodeEstimate # None
            /\ task[t].handed[1].gas_limit = Margin20(task[t].nodeEstimate)
            /\ task[t].handed[1].gas_price \in NetworkGasPrices

\* C3: an orchestrated send started without a gas price is never aborted
\* for the want of one: the transaction reaches the signer with a gas
\* price (the network's, or the fallback 1,000,000,000) and no such send
\* ends with the failure "Transaction must have a gas price".
C3_GasPriceNeverAborts ==
    \A t \in Tasks :
        (task[t].op \in OrchestratedOps /\ task[t].tx0.gas_price = None) =>
            /\ task[t].handed # <<>> => task[t].handed[1].gas_price # None
            /\ task[t].result.msg # "Transaction must have a gas price"

\* C4: a receipt with status false is never returned as a success: once
\* the poll loop has obtained one the call has ended in a failure, and every
\* receipt a call returns is the one it obtained, with status true.
C4_RevertedNeverReturned ==
    \A t \in Tasks :
        /\ (task[t].obtained.present /\ ~task[t].obtained.status) =>
               (Done(t) /\ task[t].result.kind = "raised")
        /\ (task[t].result.kind = "returned" /\ task[t].result.receipt.present) =>
               (task[t].result.receipt = task[t].obtained /\ task[t].obtained.status)

C4_Witness ==
    \E t \in Tasks :
        /\ task[t].op = "Client.transact"
        /\ task[t].obtained.present /\ ~task[t].obtained.status
        /\ task[t].nones >= 1
        /\ Done(t)

\* the queries and sleeps of a trace
PollEvents(trace) ==
    SelectSeq(trace, LAMBDA e : e \in {"get_transaction_receipt", "sleep"})

\* query, sleep, query, ..., query
Alternates(events) ==
    \A i \in 1..Len(events) :
        events[i] = IF i % 2 = 1 THEN "get_transaction_receipt" ELSE "sleep"

\* C5: when N queries found no receipt and the next one finds a receipt
\* with status true, the wait returns exactly that receipt after exactly N+1
\* queries, with one sleep of the poll interval between consecutive queries.
C5_ReturnsAfterNPlusOnePolls ==
    \A t \in Tasks :
        (task[t].obtained.present /\ task[t].obtained.status) =>
            /\ Done(t)
            /\ task[t].result = Returned(task[t].obtained, NoHash, NoAddress, <<>>)
            /\ task[t].queries = task[t].nones + 1
            /\ Len(PollEvents(task[t].trace)) = 2 * task[t].nones + 1
            /\ Alternates(PollEvents(task[t].trace))
            /\ clock - task[t].start >= task[t].nones * task[t].interval

C5_Witness ==
    \E t \in Tasks :
        /\ task[t].obtained.present /\ task[t].obtained.status
        /\ task[t].nones = 3
        /\ task[t].result.kind = "returned"

InLoop(t) == task[t].pc \in {"poll", "sleep"}

\* C6: a wait that never gets a receipt, and that its caller does not
\* cancel, fails with the timeout failure, and only once more than the
\* timeout has passed since it started; every wait ends.
C6_TimeoutOnlyAfterElapsed ==
    /\ [](\A t \in Tasks :
            /\ task[t].result.msg = "Timeout waiting for receipt" =>
                   /\ clock - task[t].start > task[t].timeout * 1000
                   /\ ~task[t].obtained.present
            /\ (/\ Done(t) /\ task[t].queries > 0 /\ task[t].nones = task[t].queries
                /\ task[t].result.exc # "CancelledError") =>
                   /\ task[t].result.kind = "raised"
                   /\ task[t].result.msg = "Timeout waiting for receipt")
    /\ \A t \in Tasks : InLoop(t) ~> Done(t)

C6_Witness ==
    \E t \in Tasks :
        /\ task[t].result.msg = "Timeout waiting for receipt"
        /\ task[t].timeout > 0
        /\ task[t].nones >= 2

\* C7: the failure raised for a reverted transaction differs in kind from
\* the failure raised for a timeout, and it carries the receipt obtained.
C7_RevertCarriesReceipt ==
    \A t \in Tasks :
        (Done(t) /\ task[t].obtained.present /\ ~task[t].obtained.status) =>
            /\ task[t].result.kind = "raised"
            /\ task[t].result.receipt = task[t].obtained

\* C8: a deployment whose receipt has status true and no contract address
\* fails: no Contract is returned to the caller.
C8_DeploymentWithoutAddressFails ==
    \A t \in Tasks :
        (/\ task[t].op \in DeployOps
         /\ Done(t)
         /\ chain[t].mined
         /\ chain[t].receipt.status
         /\ chain[t].receipt.contract_address = NoAddress) =>
            task[t].result.kind = "raised"

\* C9: the Contract a deployment returns has the contract address of the
\* receipt of the deployment transaction; that transaction has no recipient
\* and its data is the bytecode followed by the encoded constructor arguments.
C9_DeployedContractAddress ==
    \A t \in Tasks :
        (task[t].op \in DeployOps /\ task[t].result.kind = "returned") =>
            /\ task[t].tx.to = NoAddress
            /\ task[t].tx.data = task[t].bytecode \o EncodeConstructorArguments(task[t].args)
            /\ chain[t].mined => task[t].result.contract = chain[t].receipt.contract_address

\* C10: a read-only call fetches no nonce and no gas price, invokes no
\* signer, submits nothing and polls for no receipt; all it asks of the node
\* is at most one call, against the contract address, at the block tag the
\* caller gave, "latest" when none was given.
C10_ReadOnlyCallFrame ==
    \A t \in Tasks :
        task[t].op \in ReadOps =>
            /\ \A i \in 1..Len(task[t].trace) : task[t].trace[i] = "call"
            /\ Len(task[t].trace) = Len(task[t].calls)
            /\ Len(task[t].calls) <= 1
            /\ task[t].handed = <<>>
            /\ chain[t].submitted = <<>>
            /\ \A i \in 1..Len(task[t].calls) :
                   /\ task[t].calls[i].to = ContractAddress
                   /\ task[t].calls[i].block =
                          (IF task[t].block = "" THEN "latest" ELSE task[t].block)

C10_Witness ==
    \E t \in Tasks :
        /\ task[t].op = "Contract.call"
        /\ task[t].block = ""
        /\ Len(task[t].calls) = 1
        /\ task[t].result.kind = "returned"

ValidCall(r) == r.method \in r.abi.methods /\ Len(r.args) = Arity(r.method)

\* C11: a read-only call made with the library's Client, for a function of
\* the ABI with matching arguments, ends having issued exactly one call to the
\* node, and it ends either with the decoded result or with a failure that
\* comes from the node's answer.
C11_ReadOnlyCallCompletes ==
    \A t \in Tasks :
        (/\ task[t].op \in ReadOps
         /\ task[t].client = "Client"
         /\ ValidCall(task[t])
         /\ Done(t)) =>
            /\ Len(task[t].calls) = 1
            /\ task[t].result.kind = "raised" => task[t].result.cause # ""

SendOps == {"Account.send_transaction", "Contract.execute", "Contract.deploy"}

\* C12: an orchestrated send of Account or Contract returns to its caller
\* only after the confirmation poll loop for the submitted transaction has
\* ended: at least one receipt query was made, and what is returned is not
\* merely the hash of a transaction whose fate is unknown.
C12_SendReturnsAfterConfirmation ==
    \A t \in Tasks :
        (task[t].op \in SendOps /\ task[t].result.kind = "returned") =>
            /\ task[t].queries >= 1
            /\ task[t].obtained.present

\* C13: a signer instance binds its chain id once: every signature made by
\* one signer instance carries the same chain id, whatever the client reports
\* later.
C13_ChainIdBoundOnce ==
    \A t \in Tasks :
        \A i, j \in 1..Len(task[t].chainIds) :
            task[t].chainIds[i] = task[t].chainIds[j]

\* C14: no transaction lacking a gas price or a gas limit is ever signed:
\* such a sign_transaction produces no signed bytes, returns nothing, and the
\* Clef variant sends no account_signTransaction request for it.
C14_NoUnderSpecifiedSigned ==
    \A t \in Tasks :
        /\ task[t].raw # <<>> =>
               (SignedFields(task[t]).gas_price # None /\ SignedFields(task[t]).gas_limit # None)
        /\ (/\ task[t].handed # <<>>
            /\ \/ task[t].handed[Len(task[t].handed)].gas_price = None
               \/ task[t].handed[Len(task[t].handed)].gas_limit = None) =>
               /\ task[t].raw = <<>>
               /\ task[t].result.kind # "returned"
               /\ \A i \in 1..Len(task[t].trace) : task[t].trace[i] # "account_signTransaction"
               /\ Done(t) => task[t].result.kind = "raised"

C14_Witness ==
    \E t \in Tasks :
        /\ task[t].op = "Signer.sign_transaction"
        /\ task[t].signer = "ClefSigner"
        /\ task[t].signerClient = "MockClient"
        /\ task[t].tx0.nonce = None
        /\ task[t].tx0.gas_price = None
        /\ task[t].tx0.gas_limit # None
        /\ task[t].nodeNonce # None
        /\ task[t].result.msg = "Transaction must have a gas price"

\* C16: the Transaction embedded in a SignedTransaction is a record of what
\* was signed: once sign_transaction has returned, its fields equal the signed
\* fields, whatever the caller does to the original Transaction afterwards.
C16_EmbeddedTxIsWhatWasSigned ==
    \A t \in Tasks :
        (/\ task[t].op = "Signer.sign_transaction"
         /\ task[t].result.kind = "returned") =>
            EmbeddedTx(task[t]) = SignedFields(task[t])

\* C15: constructing the Clef signer probes the service with account_list
\* and fails at once when the service does not answer: a ClefSigner exists
\* only after a probe the service answered.
C15_ProbeAtConstruction ==
    \A t \in Tasks :
        task[t].op = "ClefSigner.__init__" =>
            /\ task[t].result.kind = "returned" =>
                   /\ task[t].probe \in {"result", "error"}
                   /\ task[t].trace = <<"account_list">>
            /\ (Done(t) /\ task[t].probe \in {"transport", "badjson"}) =>
                   /\ task[t].result.kind = "raised"
                   /\ task[t].result.exc = "RuntimeError"
                   /\ task[t].result.msg = "Unable to connect to Clef"

C15_Witness ==
    \E t \in Tasks :
        /\ task[t].op = "ClefSigner.__init__"
        /\ task[t].probe = "transport"
        /\ task[t].trace = <<"account_list">>
        /\ task[t].result.kind = "raised"

\* the wait of this task was given up: it timed out or it was cancelled
GivenUp(r) ==
    /\ r.result.kind = "raised"
    /\ \/ r.result.msg = "Timeout waiting for receipt"
       \/ r.result.exc = "CancelledError"

\* C20: once a wait has ended with the timeout failure, or was cancelled,
\* the call issues no further request (no poll, no resubmission) and the
\* transaction stays submitted; a receipt for it may still appear.
C20_NoRequestAfterGivingUp ==
    [][\A t \in Tasks :
         GivenUp(task[t]) =>
             /\ task'[t].trace = task[t].trace
             /\ task'[t].queries = task[t].queries
             /\ task'[t].result = task[t].result
             /\ chain[t].submitted # <<>>
             /\ chain'[t].submitted = chain[t].submitted]_vars

C20_Witness ==
    \E t \in Tasks :
        /\ task[t].result.msg = "Timeout waiting for receipt"
        /\ task[t].queries >= 2
        /\ chain[t].submitted # <<>>
        /\ chain[t].mined
        /\ chain[t].receipt.status

\* some step of call u can be taken now
CanRun(u) ==
    ENABLED (ConcStartWait(u) \/ ConcStartSend(u) \/ Request(u) \/ Resume(u))

\* call u is unfinished and waits for nothing but its turn: it is not
\* asleep on a timer that is due after another one
Ready(u) == task[u].pc # "done" /\ (task[u].pc = "sleep" => FiresFirst(u))

\* at most one coroutine runs on the thread of the event loop
OneRunsAtATime ==
    \A t, u \in ConcTasks : (HoldsThread(task[t]) /\ HoldsThread(task[u])) => t = u

\* C17: every request of an orchestrated call is a suspension point: while
\* one call waits for the answer to a request, every other unfinished call
\* can take a step, unless it is itself asleep on a timer that is due later.
C17_RpcIsSuspensionPoint ==
    \A t \in ConcTasks :
        InFlight(task[t]) =>
            \A u \in ConcTasks \ {t} : Ready(u) => CanRun(u)

\* C18: the poll loop does not busy-spin: the queries and sleeps of a wait
\* alternate, each sleep lasting the poll interval, and while a wait sleeps
\* every other unfinished call can take a step, unless it is itself asleep
\* on a timer that is due later.
C18_SleepYieldsBetweenPolls ==
    \A t \in ConcTasks :
        /\ Alternates(PollEvents(task[t].trace))
        /\ task[t].op = "Client._wait_for_transaction" =>
               clock - task[t].start >= task[t].sleeps * task[t].interval
        /\ task[t].pc = "sleep" =>
               \A u \in ConcTasks \ {t} : Ready(u) => CanRun(u)

C18_Witness ==
    /\ task[1].pc = "sleep"
    /\ task[1].nones >= 1
    /\ task[1].sleeps >= 1
    /\ task[2].op = "Account.send_transaction"
    /\ task[2].client = "Client"
    /\ InFlight(task[2])

\* a send that fetched its nonce from the node
FetchedNonce(r) ==
    r.op = "Account.send_transaction" /\ r.tx0.nonce = None /\ r.nodeNonce # None

\* C19: sends of one account are neither queued nor serialized: a send signs
\* with the pending nonce the node answered, whatever other sends of the
\* account are under way, and while one send is suspended between its nonce
\* fetch and its submission another send's nonce fetch goes ahead; so two
\* concurrent sends can both be submitted with the same nonce (the witness).
C19_SendsNotSerialized ==
    \A t \in ConcTasks :
        /\ FetchedNonce(task[t]) => task[t].tx.nonce = task[t].nodeNonce
        /\ \A u \in ConcTasks \ {t} :
               (/\ FetchedNonce(task[t])
                /\ chain[t].submitted = <<>>
                /\ Suspended(task[t])
                /\ task[u].pc = "acct_nonce"
                /\ InFlight(task[u])) => ENABLED Resume(u)

C19_Witness ==
    /\ FetchedNonce(task[1]) /\ FetchedNonce(task[2])
    /\ task[1].nodeNonce = task[2].nodeNonce
    /\ chain[1].submitted # <<>> /\ chain[2].submitted # <<>>
    /\ chain[1].submitted[1].tx.nonce = chain[2].submitted[1].tx.nonce
    /\ task[1].result.kind = "returned" /\ task[2].result.kind = "returned"

(* ------------------------------- C21 ---------------------------------- *)

Range(seq) == {seq[i] : i \in DOMAIN seq}

\* the calls of Client.chain_id whose post came back with a body
AnsweredChainId(t) ==
    /\ task[t].op = "Client.chain_id"
    /\ Done(t)
    /\ task[t].post = "response"

\* C21: for every JSON-RPC response body: one with an error member makes the
\* client operation fail, and the error raised carries the remote message
\* when the node sent one; one with neither a result nor an error member
\* makes it fail with the text of the protocol error; a value is returned
\* to the caller only for a body with a result member and no error member,
\* and it is the value of that member.
C21_ResponseEnvelope ==
    \A t \in Tasks :
        AnsweredChainId(t) =>
            LET r == task[t]
                resp == r.response
            IN /\ resp.error # <<>> =>
                    /\ r.result.kind = "raised"
                    /\ "JSON-RPC error" \in Range(r.error_text)
                    /\ Range(resp.error[1].message) \subseteq Range(r.error_text)
               /\ (resp.error = <<>> /\ resp.result = <<>>) =>
                    /\ r.result.kind = "raised"
                    /\ "JSON-RPC response missing 'result' field" \in Range(r.error_text)
               /\ r.result.kind = "returned" =>
                    /\ resp.result # <<>>
                    /\ resp.error = <<>>
                    /\ r.result.values = <<ToInt(resp.result[1]).num>>

\* a body with both members was answered, and the call failed with the
\* remote message
C21_Witness ==
    \E t \in Tasks :
        /\ AnsweredChainId(t)
        /\ task[t].response.error # <<>>
        /\ task[t].response.error[1].message # <<>>
        /\ task[t].response.result # <<>>
        /\ task[t].result.kind = "raised"
        /\ task[t].error_text = <<"Failed to get chain ID", "JSON-RPC error", "nonce too low">>

(* ------------------------------- C22 ---------------------------------- *)

\* the operations that make up an orchestrated send, whole or in part
SendPathOps ==
    {"Account.send_transaction", "Contract.execute", "Contract.deploy",
     "Client.send", "Client.execute", "Client.deploy_contract", "Client.transact",
     "Client._wait_for_transaction"}

\* the one request whose failure the send path may recover from
Recoverable(event) == event = "gas_price"

\* C22: in an orchestrated send, a request that was not answered with a
\* result (the nonce fetch, the gas estimation, the signer's requests, the
\* submission, a receipt query) is the last thing the call did: the call has
\* ended, it ended by raising, and no later step followed the failure. Only a
\* failed gas-price fetch may be followed by later steps.
C22_FailureEndsTheCall ==
    \A t \in Tasks :
        task[t].op \in SendPathOps =>
            LET a == task[t].answers
            IN \A i \in 1..Len(a) :
                 (a[i].kind # "result" /\ ~Recoverable(a[i].event)) =>
                     /\ i = Len(a)
                     /\ Done(t)
                     /\ task[t].result.kind = "raised"
                     /\ task[t].trace[Len(task[t].trace)] = a[i].event

\* the gas estimation of a send failed after the nonce had been fetched:
\* the call raised and nothing was signed or submitted
C22_Witness ==
    \E t \in Tasks :
        /\ task[t].op = "Account.send_transaction"
        /\ Len(task[t].answers) = 2
        /\ task[t].answers[1] = [event |-> "get_transaction_count", kind |-> "result"]
        /\ task[t].answers[2].event = "estimate_gas"
        /\ task[t].answers[2].kind = "raises"
        /\ task[t].result.kind = "raised"
        /\ task[t].result.msg = "Gas estimation failed"
        /\ chain[t].submitted = <<>>

(* ------------------------------- C23 ---------------------------------- *)

\* the last option of the list that assigns the signer
LastOption(opts) == opts[Len(opts)]

\* C23: Account.new raises when no signer is set after all its options were
\* applied in order (no option given, or the last one assigned None); every
\* Account it returns holds a signer, and reading address or signer on a
\* returned Account never fails with "Account has no signer".
C23_NoAccountWithoutSigner ==
    \A t \in Tasks :
        (task[t].op = "Account.new" /\ Done(t)) =>
            LET r == task[t]
            IN /\ (r.opts = <<>> \/ LastOption(r.opts) = "with_signer(None)") =>
                    r.result.kind = "raised"
               /\ r.result.kind = "raised" => r.result.exc = "ValueError"
               /\ r.result.kind = "returned" => r.signer # NoSigner
               /\ ~r.accessor.raised

\* an Account was returned although an earlier option had assigned None,
\* and one of its accessors was read
C23_Witness ==
    \E t \in Tasks :
        /\ task[t].op = "Account.new"
        /\ task[t].opts = <<"with_signer(None)", "with_private_key(valid)">>
        /\ task[t].result.kind = "returned"
        /\ task[t].accessor.name = "address"

(* ------------------------------- C24 ---------------------------------- *)

\* the HTTP client the last option of the list left in the client
FinalHttpClient(opts) ==
    IF opts = <<>> THEN "default" ELSE OptionHttpClient(opts[Len(opts)])

\* C24: Client.new / new_client hands a Client to its caller only when one
\* eth_chainId request, sent through the HTTP client that is configured
\* after all the options were applied, got through and was answered with a
\* result that reads as a chain id; every other outcome of that connection
\* test is raised as ValueError.
C24_ConnectionTestedAtConstruction ==
    \A t \in Tasks :
        (task[t].op = "Client.new" /\ Done(t)) =>
            LET r == task[t]
            IN /\ r.trace = <<"eth_chainId">>
               /\ r.http = FinalHttpClient(r.opts)
               /\ r.result.kind = "returned" =>
                    /\ r.http # r.unreachable
                    /\ r.post = "response"
                    /\ r.response.result # <<>>
                    /\ r.response.error = <<>>
                    /\ r.response.result[1].type # "null"
               /\ r.result.kind = "raised" =>
                    /\ r.result.exc = "ValueError"
                    /\ r.error_text[1] = "Failed to connect to node"
               /\ r.result.kind # "pending"

\* a caller's HTTP client was replaced by a later option, only the caller's
\* client could not reach the node, and the Client was returned
C24_Witness ==
    \E t \in Tasks :
        /\ task[t].op = "Client.new"
        /\ task[t].opts = <<"with_http_client", "with_logger">>
        /\ task[t].unreachable = "custom"
        /\ task[t].http = "logging"
        /\ task[t].result.kind = "returned"

(* ------------------------------- C25 ---------------------------------- *)

\* every request the call made was answered with a result
AllAnswered(r) == \A i \in 1..Len(r.answers) : r.answers[i].kind = "result"

\* C25: Account.send_transaction on a transaction with gas_price supplied
\* and nonce and gas_limit absent, through an account whose signer was built
\* on a client, with every request answered: the call completes the nonce and
\* the gas limit, submits the signed bytes, and returns the hash under which
\* the node holds exactly those bytes, so that a receipt the node reports for
\* the returned hash is the receipt of the submitted transaction.
C25_ReturnedHashIdentifiesSubmitted ==
    \A t \in Tasks :
        (/\ task[t].op = "Account.send_transaction"
         /\ task[t].signerClient \in ClientKinds
         /\ task[t].tx0.gas_price # None
         /\ task[t].tx0.nonce = None
         /\ task[t].tx0.gas_limit = None
         /\ Done(t)
         /\ AllAnswered(task[t])) =>
            /\ task[t].result.kind = "returned"
            /\ task[t].tx.nonce # None
            /\ task[t].tx.gas_limit # None
            /\ task[t].raw # <<>>
            /\ chain[t].submitted = task[t].raw
            /\ SignedFields(task[t]) = task[t].tx
            /\ task[t].result.hash = HashOf(t)
            /\ chain[t].mined => chain[t].receipt.transaction_hash = task[t].result.hash

(* ------------------------------- C26 ---------------------------------- *)

\* C26: once contract.execute(client, account, "set", v) has been submitted
\* and the receipt of its transaction reports status true, a following
\* contract.call(client, "get") whose request the node answers returns a
\* result of length 1 whose element is v.
C26_ReadAfterConfirmedWrite ==
    \A t \in Tasks :
        (/\ task[t].op = "Contract.execute"
         /\ task[t].read.kind # "pending"
         /\ task[t].read.cause = "") =>
            /\ task[t].read.kind = "returned"
            /\ Len(task[t].read.values) = 1
            /\ task[t].read.values[1] = task[t].args[1]

(* ------------------------------- C27 ---------------------------------- *)

SignMessageOps == {"Account.sign_message", "Signer.sign_message"}

\* C27: whichever signer signs and through whichever call site, a
\* sign_message that returns hands back the same representation: a record
\* with exactly the components r, s and v, r of 32 bytes, s of 32 bytes and
\* v of 1 byte.
C27_OneSignatureRepresentation ==
    \A t \in Tasks :
        (task[t].op \in SignMessageOps /\ task[t].result.kind = "returned") =>
            /\ DOMAIN task[t].signature = {"r", "s", "v"}
            /\ task[t].signature.r = 32
            /\ task[t].signature.s = 32
            /\ task[t].signature.v = 1

\* the Clef signer returned a signature through Account.sign_message
C27_Witness ==
    \E t \in Tasks :
        /\ task[t].op = "Account.sign_message"
        /\ task[t].signer = "ClefSigner"
        /\ task[t].trace = <<"account_signData">>
        /\ task[t].result.kind = "returned"

(* ------------------------------- C28 ---------------------------------- *)

\* the raw ABI declares a named function of that name
DeclaresFunction(raw_abi, name) ==
    /\ name # ""
    /\ \E i \in DOMAIN raw_abi : raw_abi[i].type = "function" /\ raw_abi[i].name = name

\* the raw ABI declares a named event of that name
DeclaresEvent(raw_abi, name) ==
    /\ name # ""
    /\ \E i \in DOMAIN raw_abi : raw_abi[i].type = "event" /\ raw_abi[i].name = name

ContractMethodOps == {"Contract.execute", "Contract.call", "Client.call"}

\* C28: encode_function_data and decode_function_result raise the
\* unknown-method error (ValueError) for every name the ABI declares no
\* function for, a name it declares only as an event included; and a
\* Contract.execute or a call given such a name has ended by raising that
\* error without a single request to a client.
C28_UnknownMethodFailsFirst ==
    \A t \in Tasks :
        /\ (/\ task[t].op = "ABI"
            /\ task[t].last.op \in {"encode_function_data", "decode_function_result"}
            /\ ~DeclaresFunction(task[t].raw_abi, task[t].last.name)) =>
               /\ task[t].last.out.raised
               /\ task[t].last.out.exc = "ValueError"
               /\ task[t].last.out.values = <<>>
        /\ (/\ task[t].op \in ContractMethodOps
            /\ task[t].pc \notin {"idle", "contract_execute", "contract_call"}
            /\ task[t].method \notin task[t].abi.methods) =>
               /\ Done(t)
               /\ task[t].result.kind = "raised"
               /\ task[t].result.exc = "ValueError"
               /\ task[t].trace = <<>>
               /\ task[t].answers = <<>>

\* encoding was asked for a name the ABI declares only as an event
C28_Witness ==
    \E t \in Tasks :
        /\ task[t].op = "ABI"
        /\ task[t].last.op = "encode_function_data"
        /\ task[t].last.name = "Changed"
        /\ DeclaresEvent(task[t].raw_abi, "Changed")
        /\ task[t].last.out.raised

(* ------------------------------- C29 ---------------------------------- *)

\* C29: decode_function_result of a method the ABI has, given empty data,
\* returns the empty sequence, whether the method declares outputs or not.
C29_EmptyDataDecodesToNothing ==
    \A t \in Tasks :
        (/\ task[t].op = "ABI"
         /\ task[t].last.op = "decode_function_result"
         /\ DeclaresFunction(task[t].raw_abi, task[t].last.name)
         /\ task[t].last.data = <<>>) =>
            /\ ~task[t].last.out.raised
            /\ task[t].last.out.values = <<>>

\* empty data was decoded for a method that declares one output
C29_Witness ==
    \E t \in Tasks :
        /\ task[t].op = "ABI"
        /\ task[t].raw_abi = <<Item("function", "get", 0, 1)>>
        /\ task[t].last.op = "decode_function_result"
        /\ task[t].last.name = "get"
        /\ task[t].last.data = <<>>
        /\ task[t].last.out.values = <<>>

(* ------------------------------- C30 ---------------------------------- *)

\* the keys of a table are pairwise different
UniqueKeys(dict) ==
    \A i, j \in DOMAIN dict : dict[i].key = dict[j].key => i = j

\* the last item of the raw ABI with that type and name
LastDeclared(raw_abi, type, name) ==
    LET at == {i \in DOMAIN raw_abi : raw_abi[i].type = type /\ raw_abi[i].name = name}
    IN raw_abi[CHOOSE i \in at : \A j \in at : j <= i]

\* the two tables of an ABI object agree with the raw list they were built from
SeparateTables(r) ==
    /\ \A name \in LookupNames :
         /\ get_method(r.tables, name) =
                IF DeclaresFunction(r.raw_abi, name)
                THEN LastDeclared(r.raw_abi, "function", name) ELSE NoItem
         /\ get_event(r.tables, name) =
                IF DeclaresEvent(r.raw_abi, name)
                THEN LastDeclared(r.raw_abi, "event", name) ELSE NoItem
    /\ \A i \in DOMAIN r.tables.methods :
         /\ r.tables.methods[i].item.type = "function"
         /\ r.tables.methods[i].item.name = r.tables.methods[i].key
         /\ r.tables.methods[i].key # ""
    /\ \A i \in DOMAIN r.tables.events :
         /\ r.tables.events[i].item.type = "event"
         /\ r.tables.events[i].item.name = r.tables.events[i].key
         /\ r.tables.events[i].key # ""
    /\ UniqueKeys(r.tables.methods)
    /\ UniqueKeys(r.tables.events)

\* C30: an ABI built from a raw list keeps functions and events in two
\* tables keyed by name: a name that a named function item declares is found
\* by method lookup as a function item of that name (the last one declared),
\* and by event lookup only if an event item declares it too, and the same
\* with the roles exchanged; no key occurs twice in a table; an item
\* without a name is in neither table; and no lookup, encoding or decoding
\* made on the object changes the tables.
C30_SeparateLookupTables ==
    /\ [](\A t \in Tasks : task[t].op = "ABI" => SeparateTables(task[t]))
    /\ [][\A t \in Tasks : task[t].op = "ABI" => task'[t].tables = task[t].tables]_vars

\* an ABI with a function and an event of one name was used twice
C30_Witness ==
    \E t \in Tasks :
        /\ task[t].op = "ABI"
        /\ task[t].raw_abi = <<Item("function", "get", 0, 1), Item("event", "get", 0, 0)>>
        /\ task[t].uses = 2
        /\ task[t].last.op = "get_event"
        /\ task[t].last.name = "get"
        /\ task[t].last.out.found = Item("event", "get", 0, 0)


\* C31: a deployment given constructor arguments and an ABI that declares no
\* constructor fails with the missing-constructor failure (the ValueError of
\* Contract.deploy), on both deployment paths, and has issued no request.
C31_MissingConstructorFailsFirst ==
    \A t \in Tasks :
        (/\ task[t].op \in DeployOps
         /\ task[t].bytecode # <<>>
         /\ task[t].args # <<>>
         /\ ~task[t].abi.has_constructor
         /\ Done(t)) =>
            /\ task[t].result.kind = "raised"
            /\ task[t].result.exc = "ValueError"
            /\ task[t].result.msg = "ABI does not contain a constructor"
            /\ task[t].trace = <<>>


\* C32: every 20-byte value given to Address comes back equal from
\* address_from_hex(Address(a).hex()), and Address fails for every byte
\* string whose length is not 20.
C32_AddressRoundTrip ==
    \A t \in Tasks :
        (task[t].op = "Address" /\ Done(t)) =>
            IF Len(task[t].addr.input) = AddressLength
            THEN /\ ~task[t].addr.built.raised
                 /\ ~task[t].addr.back.raised
                 /\ AddressEq(task[t].addr.back, task[t].addr.built)
                 /\ task[t].addr.back.bytes = task[t].addr.input
            ELSE /\ task[t].addr.built.raised
                 /\ task[t].result.kind = "raised"

\* an address with letter digits and leading-zero digits has made the round
\* trip, through a text of 42 characters
C32_Witness ==
    \E t \in Tasks :
        /\ task[t].op = "Address" /\ Done(t)
        /\ Len(task[t].addr.input) = AddressLength
        /\ task[t].addr.input[1] = 171 /\ task[t].addr.input[2] = 10
        /\ Len(task[t].addr.hex) = 42
        /\ task[t].addr.back.bytes = task[t].addr.input


\* C33: for a function with only static types,
\* decode_function_result(name, encode_function_data(name, args)) returns
\* exactly args.
C33_EncodeDecodeRoundTrip ==
    \A t \in Tasks :
        (/\ task[t].op = "ABI.round_trip"
         /\ Done(t)
         /\ Len(task[t].codec.args) = Len(task[t].codec.fn.inputs)) =>
            /\ task[t].result.kind = "returned"
            /\ task[t].codec.out.values = task[t].codec.args


\* the requests of a call made so far, by name
Asked(t, event) == \E i \in 1..Len(task[t].trace) : task[t].trace[i] = event

\* the call has built the Transaction that it completes: it is past the
\* encoding of the call data or of the constructor arguments
HasTransaction(t) ==
    /\ task[t].op \in SendOps
    /\ task[t].pc \notin {"idle", "contract_execute", "contract_deploy"}
    /\ ~(/\ Done(t)
         /\ task[t].op \in {"Contract.execute", "Contract.deploy"}
         /\ task[t].result.exc \in {"ValueError", "Web3Error"}
         /\ task[t].trace = <<>>)

\* the fields of tx that the caller supplied keep the caller's values, and
\* so do to, value and data
KeepsCallerFields(tx0, tx) ==
    /\ tx0.nonce # None => tx.nonce = tx0.nonce
    /\ tx0.gas_limit # None => tx.gas_limit = tx0.gas_limit
    /\ tx0.gas_price # None => tx.gas_price = tx0.gas_price
    /\ tx.to = tx0.to /\ tx.value = tx0.value /\ tx.data = tx0.data

\* C34: a send through an account never overwrites a field the caller
\* supplied and asks nothing for it: no nonce fetch for a supplied nonce, no
\* estimate_gas for a supplied gas limit, no gas-price fetch for a supplied
\* gas price; the transaction handed to the signer has the caller's values
\* for those fields and the caller's to, value and data.
C34_CallerFieldsAreKept ==
    \A t \in Tasks :
        HasTransaction(t) =>
            /\ task[t].tx0.nonce # None => ~Asked(t, "get_transaction_count")
            /\ task[t].tx0.gas_limit # None => ~Asked(t, "estimate_gas")
            /\ task[t].tx0.gas_price # None => ~Asked(t, "gas_price")
            /\ KeepsCallerFields(task[t].tx0, task[t].tx)
            /\ \A i \in 1..Len(task[t].handed) :
                   KeepsCallerFields(task[t].tx0, task[t].handed[i])

\* a transaction with every field supplied was signed and submitted after no
\* other request than the signer's chain id
C34_Witness ==
    \E t \in Tasks :
        /\ task[t].op = "Account.send_transaction"
        /\ task[t].tx0.nonce = 9 /\ task[t].tx0.gas_limit = 50000 /\ task[t].tx0.gas_price = 2
        /\ task[t].handed = <<task[t].tx0>>
        /\ task[t].result.kind = "returned"
        /\ ~Asked(t, "get_transaction_count") /\ ~Asked(t, "estimate_gas")
        /\ Asked(t, "send_raw_transaction")


\* how many times the call has asked for the event
Count(trace, event) == Cardinality({i \in 1..Len(trace) : trace[i] = event})

\* the calls that complete, sign and submit a transaction themselves
SubmittingOps ==
    {"Account.send_transaction", "Contract.execute", "Contract.deploy",
     "Client.send", "Client.execute", "Client.deploy_contract"}

\* every request answered before the submission succeeded, but for the
\* gas-price fetch, which has a fallback
AnsweredBeforeSubmission(r) ==
    \A i \in 1..Len(r.answers) :
        r.answers[i].event \notin {"send_raw_transaction", "get_transaction_receipt", "gas_price"}
            => r.answers[i].kind = "result"

\* C35: a call that completes, signs and submits a transaction issues
\* send_raw_transaction at most once, only after sign_transaction has
\* returned signed bytes for it and every earlier step succeeded, and what
\* the node receives is exactly those bytes; while a call polls for the
\* receipt nothing is submitted again.
C35_SubmittedOnceAfterSigning ==
    /\ [](\A t \in Tasks :
            /\ task[t].op \in SubmittingOps \cup {"Client.transact"} =>
                 /\ Count(task[t].trace, "send_raw_transaction") <= 1
                 /\ chain[t].submitted \in {<<>>, task[t].raw}
                 /\ chain[t].submitted # <<>> => Asked(t, "send_raw_transaction")
            /\ (task[t].op \in SubmittingOps /\ Asked(t, "send_raw_transaction")) =>
                 /\ task[t].raw # <<>>
                 /\ Count(task[t].trace, "sign_transaction") = 1
                 /\ AnsweredBeforeSubmission(task[t]))
    /\ [][\A t \in Tasks :
            task[t].pc \in {"poll", "sleep"} =>
                /\ chain'[t].submitted = chain[t].submitted
                /\ Count(task'[t].trace, "send_raw_transaction")
                     = Count(task[t].trace, "send_raw_transaction")]_vars

\* a send that fetched a nonce and a gas estimate, had the transaction
\* signed and submitted the signed bytes, once
C35_Witness ==
    \E t \in Tasks :
        /\ task[t].op = "Account.send_transaction"
        /\ task[t].result.kind = "returned"
        /\ Asked(t, "get_transaction_count") /\ Asked(t, "estimate_gas")
        /\ Count(task[t].trace, "send_raw_transaction") = 1
        /\ task[t].raw # <<>>
        /\ chain[t].submitted = task[t].raw


SameObjectOps == {"Account.send_transaction", "Signer.sign_transaction"}

\* C36: the completion of fields assigns to the caller's Transaction and a
\* failure takes nothing back: after a send or a signature that failed once
\* the pending nonce had been fetched, the Transaction has that nonce (and
\* the gas limit computed from a fetched estimate), and a later call with the
\* same object uses that nonce and fetches none.
C36_CompletionSurvivesFailure ==
    \A t \in Tasks :
        (task[t].op \in SameObjectOps /\ Count(task[t].trace, "sign_transaction") <= 1) =>
            /\ (Done(t) /\ task[t].result.kind = "raised") =>
                 /\ task[t].nodeNonce # None => CallerObject(task[t]).nonce = task[t].nodeNonce
                 /\ task[t].nodeEstimate # None =>
                        CallerObject(task[t]).gas_limit = BufferedGasLimit(task[t].nodeEstimate)
            /\ (task[t].earlier.sent /\ task[t].earlier.nodeNonce # None) =>
                 /\ task[t].tx0.nonce = task[t].earlier.nodeNonce
                 /\ task[t].raw = <<>> => task[t].tx.nonce = task[t].earlier.nodeNonce
                 /\ ~Asked(t, "get_transaction_count")
                 /\ \A i \in 1..Len(task[t].handed) :
                        task[t].handed[i].nonce = task[t].earlier.nodeNonce
                 /\ task[t].raw # <<>> =>
                        SignedFields(task[t]).nonce = task[t].earlier.nodeNonce

\* a send failed at the gas estimate after it had fetched the nonce; the
\* second send of the object was signed and submitted with that nonce
C36_Witness ==
    \E t \in Tasks :
        /\ task[t].op = "Account.send_transaction"
        /\ task[t].earlier.sent
        /\ task[t].earlier.nodeNonce \in PendingNonces
        /\ task[t].earlier.nodeEstimate = None
        /\ task[t].result.kind = "returned"
        /\ chain[t].submitted # <<>>
        /\ chain[t].submitted[1].tx.nonce = task[t].earlier.nodeNonce


WaitOps == {"Client.transact", "Client._wait_for_transaction"}

\* the wait has been through its loop: it sleeps or it has ended
PastFirstIteration(t) ==
    /\ task[t].op \in WaitOps
    /\ \/ task[t].pc = "sleep"
       \/ Done(t) /\ task[t].hash # NoHash

\* C37: in every iteration of the confirmation poll loop the receipt is
\* queried and examined before the timeout is checked: a wait makes at least
\* one receipt query, whatever its timeout, and a receipt that a query
\* returned is returned to the caller, or reported as reverted, also when
\* the timeout had elapsed by the time the answer came; the timeout failure
\* is raised only after a query that returned no receipt.
C37_ReceiptExaminedBeforeTimeout ==
    \A t \in Tasks :
        PastFirstIteration(t) =>
            /\ task[t].queries >= 1
            /\ (Done(t) /\ task[t].obtained.present) =>
                 /\ task[t].result.msg # "Timeout waiting for receipt"
                 /\ task[t].obtained.status =>
                        /\ task[t].result.kind = "returned"
                        /\ task[t].result.receipt = task[t].obtained
                 /\ ~task[t].obtained.status =>
                        /\ task[t].result.kind = "raised"
                        /\ task[t].result.msg = "Transaction failed"
            /\ (Done(t) /\ task[t].result.msg = "Timeout waiting for receipt") =>
                 /\ ~task[t].obtained.present
                 /\ task[t].nones = task[t].queries

\* a wait with timeout zero whose only query was answered, with a receipt,
\* after the timeout had elapsed, and which returned that receipt
C37_Witness ==
    \E t \in Tasks :
        /\ task[t].op = "Client._wait_for_transaction"
        /\ Done(t)
        /\ task[t].timeout = 0
        /\ task[t].queries = 1
        /\ TimedOut(clock, task[t].start, task[t].timeout)
        /\ task[t].obtained.present
        /\ task[t].result.kind = "returned"
        /\ task[t].result.receipt = task[t].obtained


\* the i-th answer the call got is a failed receipt query
FailedReceiptQuery(r, i) ==
    /\ r.answers[i].event = "get_transaction_receipt"
    /\ r.answers[i].kind # "result"

\* C38: a receipt query that fails during the confirmation poll loop, by a
\* transport failure or by an answer that is no result, ends the wait at
\* once with that failure: it is the last request of the wait, no sleep
\* follows it, and the wait raises the failure of the query, whether or not
\* the timeout has elapsed.
C38_FailedQueryEndsTheWait ==
    \A t \in Tasks :
        task[t].op \in WaitOps =>
            \A i \in 1..Len(task[t].answers) :
                FailedReceiptQuery(task[t], i) =>
                    /\ i = Len(task[t].answers)
                    /\ task[t].trace[Len(task[t].trace)] = "get_transaction_receipt"
                    /\ Done(t)
                    /\ task[t].result.kind = "raised"
                    /\ task[t].result.msg = "Failed to get receipt"
                    /\ task[t].result.cause = task[t].answers[i].kind
                    /\ task[t].nones = task[t].queries - 1

\* the second query of a wait met an RPC error envelope before the timeout
\* had elapsed, and the wait raised
C38_Witness ==
    \E t \in Tasks :
        /\ task[t].op = "Client._wait_for_transaction"
        /\ Done(t)
        /\ task[t].queries = 2
        /\ task[t].answers[Len(task[t].answers)].kind = "error"
        /\ ~TimedOut(clock, task[t].start, task[t].timeout)
        /\ task[t].result.msg = "Failed to get receipt"


\* the status members that stand for success: the string "0x1" and a truthy
\* native value
SuccessStatusFields == {"0x1", "int1"}

\* C39: a receipt counts as successful only when its status member is the
\* string "0x1" or a truthy native value; a receipt that the node sent
\* without a status member, or with any other status string, has status
\* false, and the confirmation poll loop that obtained it fails as reverted.
C39_OnlyExplicitSuccessIsSuccess ==
    \A t \in Tasks :
        (task[t].op \in WaitOps /\ Done(t) /\ task[t].obtained.present) =>
            /\ task[t].obtained.status <=> task[t].status_field \in SuccessStatusFields
            /\ task[t].status_field \notin SuccessStatusFields =>
                 /\ task[t].result.kind = "raised"
                 /\ task[t].result.msg = "Transaction failed"
            /\ task[t].result.kind = "returned" =>
                 task[t].status_field \in SuccessStatusFields

\* a wait obtained a receipt without a status member and failed as reverted
C39_Witness ==
    \E t \in Tasks :
        /\ task[t].op \in WaitOps /\ Done(t)
        /\ task[t].obtained.present
        /\ task[t].status_field = "absent"
        /\ task[t].result.kind = "raised"
        /\ task[t].result.msg = "Transaction failed"


\* C40: when the strict decoding of non-empty return data fails for a
\* method with a single uint256 output, decode_function_result does not
\* fail: it returns one value, the big-endian integer of the last 32 bytes
\* of the data.
C40_FallbackForSingleUint ==
    \A t \in Tasks :
        (/\ task[t].op = "ABI.decode_function_result"
         /\ Done(t)
         /\ task[t].codec.fn.outputs = <<"uint256">>
         /\ task[t].codec.data # <<>>
         /\ Decode(task[t].codec.fn.outputs, task[t].codec.data).raised) =>
            /\ task[t].result.kind = "returned"
            /\ ~task[t].codec.out.raised
            /\ task[t].codec.out.values
                 = <<FromBytes(LastBytes(task[t].codec.data, WordLength))>>

\* return data of 31 bytes, ff 00 .. 00 2a, was decoded for a uint256: the
\* strict decoding failed and the value returned has those 31 bytes
C40_Witness ==
    \E t \in Tasks :
        /\ task[t].op = "ABI.decode_function_result"
        /\ Done(t)
        /\ task[t].codec.fn.outputs = <<"uint256">>
        /\ Len(task[t].codec.data) = WordLength - 1
        /\ task[t].codec.data[1] = 255
        /\ Decode(task[t].codec.fn.outputs, task[t].codec.data).raised
        /\ task[t].codec.out.values = <<task[t].codec.data>>

====
